---------------------------- MODULE Spec2Model ----------------------------
(***************************************************************************)
(* A model of github.com/pfcm/audiofile: the riff container Reader and     *)
(* Writer, and the wav layer built on them (format descriptor codec,       *)
(* stream Reader and Writer).                                              *)
(*                                                                         *)
(* Bytes are naturals 0..255, byte strings are sequences of bytes, a       *)
(* stream is a byte string with an offset.  Go errors are strings; "nil"   *)
(* is the nil error and "EOF" is the io.EOF value itself.                  *)
(***************************************************************************)
EXTENDS Integers, Sequences, FiniteSets, TLC

VARIABLES
    \* ---- riff.Reader over a byte stream
    stream,     \* the bytes of the underlying io.Reader
    rpc,        \* "new" before riff.NewReader, "open" after, "failed" when it erred
    rd,         \* the riff.Reader: Form, offset of r.r, hdr, current chunk
    lims,       \* the io.LimitedReader of every chunk returned so far: its N
    calls,      \* the result of every ReadChunk call so far, in order
    delivered,  \* per returned content stream: bytes handed to the caller, EOF seen
    layout,     \* the chunks the stream was laid out from, and where it was cut
    \* ---- riff.Writer over an io.WriteSeeker
    ws,         \* the bytes of the underlying io.WriteSeeker
    wpos,       \* its seek position
    wr,         \* the riff.Writer: written; whether it was closed and used in order
    cws,        \* every chunkWriter handed out: written, its chunk, times closed
    wlog,       \* what the caller asked for: per chunk id, payload, how it was written
    wlast,      \* the last Writer operation: name, error, stream calls it issued
    \* ---- the format descriptor codec
    fin,        \* the bytes handed to readFmtChunk
    fpc,        \* "input", "parsed", "serialized", "reparsed"; "format", "derived"
    fres,       \* the result of readFmtChunk(fin)
    fser,       \* the bytes writeFmtChunk wrote for the parsed descriptor
    fre,        \* the result of readFmtChunk(fser)
    ff,         \* a caller's FileFormat
    fder,       \* the fmtChunk FileFormat.chunk() derived from ff
    \* ---- the wav layer
    wavr,       \* the wav.Reader: where NewReader stands, its error, fmt, data, dataBytes
    wavw,       \* the wav.Writer: fmt and dc, the data chunk's writer
    sbufs,      \* the caller's per-channel buffers after the last decode call
    sent,       \* per channel, the samples the caller's encode calls have written
    slast,      \* the last sample operation: name, buffers, frames, result, stream calls
    \* ---- pure functions applied to one input
    conv,       \* the input drawn, the step reached and the values computed
    \* ---- a second riff.Reader, driven by the same calls as the first
    twin        \* its stream, Reader, content streams and results

readVars  == <<stream, rpc, rd, lims, calls, delivered, layout>>
writeVars == <<ws, wpos, wr, cws, wlog, wlast>>
fmtVars   == <<fin, fpc, fres, fser, fre, ff, fder>>
wavVars   == <<wavr, wavw, sbufs, sent, slast>>
convVars  == <<conv>>
twinVars  == <<twin>>
vars      == <<readVars, writeVars, fmtVars, wavVars, convVars, twinVars>>

\* what the actions of one layer leave alone
notRead   == <<writeVars, fmtVars, wavVars, convVars, twinVars>>
notWrite  == <<readVars, fmtVars, wavVars, convVars, twinVars>>
notFmt    == <<readVars, writeVars, wavVars, convVars, twinVars>>

---------------------------------------------------------------------------
(* Each specification below drives one layer; the variables of the other   *)
(* layers stay at these values.                                            *)

ReadOff ==
    /\ stream = << >> /\ rpc = "off" /\ lims = << >> /\ calls = << >>
    /\ rd = [Form |-> << >>, off |-> 0,
             hdr |-> [id |-> << 0, 0, 0, 0 >>, size |-> 0, pad |-> FALSE],
             chunk |-> [Identifier |-> << >>, Size |-> 0, Reader |-> 0], pad |-> FALSE]
    /\ delivered = << >>
    /\ layout = [chunks |-> << >>, cut |-> 0, full |-> 0]

WriteOff ==
    /\ ws = << >> /\ wpos = 0 /\ cws = << >> /\ wlog = << >>
    /\ wr = [written |-> 0, closed |-> FALSE, proper |-> TRUE]
    /\ wlast = [op |-> "none", err |-> "nil", ios |-> 0, arg |-> 0,
                before |-> 0, outOfOrder |-> FALSE]

FmtOff ==
    /\ fin = << >> /\ fpc = "off" /\ fres = "none" /\ fser = << >> /\ fre = "none"
    /\ ff = "none" /\ fder = "none"

NoSampleOp == [op |-> "none", k |-> 0, declared |-> 0, nbuf |-> 0, frames |-> 0,
               n |-> 0, err |-> "nil", ios |-> 0, stores |-> 0, moved |-> FALSE,
               at |-> 0, left |-> 0]

ConvOff == conv = [pc |-> "off"]
TwinOff == twin = [pc |-> "off"]

WavOff ==
    /\ wavr = [pc |-> "off"] /\ wavw = [pc |-> "off"]
    /\ sbufs = << >> /\ sent = << >> /\ slast = NoSampleOp

---------------------------------------------------------------------------
(* Bounds of the model.                                                    *)

MaxChunks  == 2   \* chunks in a container
MaxPayload == 3   \* payload bytes of one chunk
MaxExtra   == 2   \* ReadChunk calls beyond the number of chunks laid out

---------------------------------------------------------------------------
(* Byte strings.                                                           *)

Min(a, b) == IF a < b THEN a ELSE b
Max(a, b) == IF a > b THEN a ELSE b

Take(s, n) == SubSeq(s, 1, Min(n, Len(s)))
Drop(s, n) == SubSeq(s, n + 1, Len(s))

\* binary.LittleEndian.AppendUint32 / Uint32 (values below 2^31)
AppendUint32(u) ==
    << u % 256, (u \div 256) % 256, (u \div 65536) % 256, (u \div 16777216) % 256 >>
Uint32(b) == b[1] + 256 * b[2] + 65536 * b[3] + 16777216 * b[4]

IdRIFF == << 82, 73, 70, 70 >>
IdWAVE == << 87, 65, 86, 69 >>
IdFmt  == << 102, 109, 116, 32 >>
IdData == << 100, 97, 116, 97 >>
IdLIST == << 76, 73, 83, 84 >>
IdTest == << 116, 101, 115, 116 >>

---------------------------------------------------------------------------
(* io.Reader over a byte string (bytes.Reader, os.File): Read hands out    *)
(* what is there, and io.EOF only when nothing is left.                    *)

\* r.Read(p) with len(p) = want at offset off
Read(data, off, want) ==
    IF off >= Len(data)
    THEN [n |-> 0, err |-> "EOF", off |-> off, bytes |-> << >>]
    ELSE LET n == Min(want, Len(data) - off)
         IN  [n |-> n, err |-> "nil", off |-> off + n,
              bytes |-> SubSeq(data, off + 1, off + n)]

\* io.ReadFull(r, buf) with len(buf) = want
ReadFull(data, off, want) ==
    LET n == Min(want, Max(Len(data) - off, 0))
    IN  [n |-> n, off |-> off + n, bytes |-> SubSeq(data, off + 1, off + n),
         err |-> IF n = want THEN "nil"
                 ELSE IF n = 0 THEN "EOF" ELSE "ErrUnexpectedEOF"]

\* (*io.LimitedReader).Read(p) with len(p) = want; lim is its N
LimitedRead(data, off, lim, want) ==
    IF lim <= 0
    THEN [n |-> 0, err |-> "EOF", off |-> off, bytes |-> << >>, lim |-> lim]
    ELSE LET r == Read(data, off, Min(want, lim))
         IN  [n |-> r.n, err |-> r.err, off |-> r.off, bytes |-> r.bytes,
              lim |-> lim - r.n]

---------------------------------------------------------------------------
(* riff.Reader.                                                            *)

ScratchSize == 4096

ZeroHeader == [id |-> << 0, 0, 0, 0 >>, size |-> 0, pad |-> FALSE]
NilChunk   == [Identifier |-> << >>, Size |-> 0, Reader |-> 0]

\* readChunkHeader(r, ch): ch.id is read in place, so a short read leaves part of it
readChunkHeader(data, off, ch) ==
    LET a == ReadFull(data, off, 4)
        idNow == a.bytes \o Drop(ch.id, a.n)
    IN  IF a.err # "nil"
        THEN [err |-> a.err, off |-> a.off, hdr |-> [ch EXCEPT !.id = idNow]]
        ELSE LET b == ReadFull(data, a.off, 4)
             IN  IF b.err # "nil"
                 THEN [err |-> b.err, off |-> b.off, hdr |-> [ch EXCEPT !.id = idNow]]
                 ELSE [err |-> "nil", off |-> b.off,
                       hdr |-> [id |-> idNow, size |-> Uint32(b.bytes),
                                pad |-> Uint32(b.bytes) % 2 = 1]]

\* riff.NewReader as it would be if it held the total size against the stream
riffNewReaderSized(data) ==
    LET h == readChunkHeader(data, 0, ZeroHeader)
        f == ReadFull(data, h.off, 4)
    IN  IF h.err # "nil" THEN [err |-> h.err, off |-> h.off, Form |-> << >>, pad |-> FALSE]
        ELSE IF h.hdr.id # IdRIFF
        THEN [err |-> "expected ID RIFF", off |-> h.off, Form |-> << >>, pad |-> FALSE]
        ELSE IF h.hdr.size # Len(data) - 8
        THEN [err |-> "bad size", off |-> h.off, Form |-> << >>, pad |-> FALSE]
        ELSE IF f.err = "EOF"
        THEN [err |-> "unexpected EOF, expecting form ID", off |-> f.off,
              Form |-> << >>, pad |-> FALSE]
        ELSE IF f.err # "nil"
        THEN [err |-> f.err, off |-> f.off, Form |-> << >>, pad |-> FALSE]
        ELSE [err |-> "nil", off |-> f.off, Form |-> f.bytes, pad |-> h.hdr.pad]

\* riff.NewReader(r): the header's pad flag (the parity of the total size) is
\* kept in the Reader's pad field
riffNewReader(data) ==
    LET h == readChunkHeader(data, 0, ZeroHeader)
    IN  IF h.err # "nil" THEN [err |-> h.err, off |-> h.off, Form |-> << >>, pad |-> FALSE]
        ELSE IF h.hdr.id # IdRIFF
        THEN [err |-> "expected ID RIFF", off |-> h.off, Form |-> << >>, pad |-> FALSE]
        ELSE LET f == ReadFull(data, h.off, 4)
             IN  IF f.err = "EOF"
                 THEN [err |-> "unexpected EOF, expecting form ID", off |-> f.off,
                       Form |-> << >>, pad |-> FALSE]
                 ELSE IF f.err # "nil"
                 THEN [err |-> f.err, off |-> f.off, Form |-> << >>, pad |-> FALSE]
                 ELSE [err |-> "nil", off |-> f.off, Form |-> f.bytes, pad |-> h.hdr.pad]

\* &Reader{Form: ..., r: r, pad: ...}
NewRiffReader(form, off, pad) ==
    [Form |-> form, off |-> off, hdr |-> ZeroHeader, chunk |-> NilChunk, pad |-> pad]

\* the drain loop of ReadChunk: read the previous chunk's stream until io.EOF
RECURSIVE drain(_, _, _)
drain(data, off, lim) ==
    LET r == LimitedRead(data, off, lim, ScratchSize)
    IN  IF r.err = "EOF" THEN [off |-> off, lim |-> lim]
        ELSE drain(data, r.off, r.lim)

\* readPad as it would be if the pad byte were forgotten
readPadForgotten(data, off, pad) == [err |-> "nil", off |-> off]

\* the pad step of ReadChunk: one Read of one byte when the last header said so
readPad(data, off, pad) ==
    IF ~pad THEN [err |-> "nil", off |-> off]
    ELSE LET r == Read(data, off, 1)
         IN  IF r.err = "EOF" THEN [err |-> "unexpected EOF: missing pad byte", off |-> off]
             ELSE [err |-> "nil", off |-> r.off]

\* (*Reader).ReadChunk(): r the Reader, ls the LimitedReaders handed out so far
ReadChunk(data, r, ls) ==
    LET d  == IF r.chunk.Reader # 0
              THEN drain(data, r.off, ls[r.chunk.Reader])
              ELSE [off |-> r.off, lim |-> 0]
        ls1 == IF r.chunk.Reader # 0 THEN [ls EXCEPT ![r.chunk.Reader] = d.lim] ELSE ls
        p  == readPad(data, d.off, r.hdr.pad)
    IN  IF p.err # "nil"
        THEN [err |-> p.err, r |-> [r EXCEPT !.off = p.off], ls |-> ls1]
        ELSE LET h == readChunkHeader(data, p.off, r.hdr)
             IN  IF h.err # "nil"
                 THEN [err |-> h.err, r |-> [r EXCEPT !.off = h.off, !.hdr = h.hdr],
                       ls |-> ls1]
                 ELSE [err |-> "nil",
                       r |-> [r EXCEPT !.off = h.off, !.hdr = h.hdr,
                                       !.chunk = [Identifier |-> h.hdr.id,
                                                  Size |-> h.hdr.size,
                                                  Reader |-> Len(ls1) + 1]],
                       ls |-> Append(ls1, h.hdr.size)]

---------------------------------------------------------------------------
(* The container wire format, used to lay out the streams a Reader is      *)
(* opened on: signature, total size, form tag, then per chunk identifier,  *)
(* size, payload and one pad byte after an odd payload.                    *)

PayloadByte(k, j) == 16 * k + j
PayloadOf(k, n)   == [j \in 1..n |-> PayloadByte(k, j)]
TestId(k)         == << 48, 48, 48, 48 + k >>

PadOf(n) == IF n % 2 = 1 THEN << 0 >> ELSE << >>

ChunkBytes(c) == c.id \o AppendUint32(Len(c.data)) \o c.data \o PadOf(Len(c.data))

RECURSIVE ChunksBytes(_)
ChunksBytes(cs) ==
    IF cs = << >> THEN << >> ELSE ChunkBytes(Head(cs)) \o ChunksBytes(Tail(cs))

Container(form, cs) ==
    LET body == ChunksBytes(cs)
    IN  IdRIFF \o AppendUint32(4 + Len(body)) \o form \o body

\* offsets at which a chunk header starts or the container ends
RECURSIVE Boundaries(_, _)
Boundaries(cs, at) ==
    IF cs = << >> THEN {at}
    ELSE {at} \cup Boundaries(Tail(cs), at + Len(ChunkBytes(Head(cs))))

Layouts ==
    UNION { { [k \in 1..n |-> [id |-> TestId(k), data |-> PayloadOf(k, sz[k])]] :
              sz \in [1..n -> 0..MaxPayload] } : n \in 0..MaxChunks }

---------------------------------------------------------------------------
(* SpecRead: a riff.Reader opened on a container that is cut anywhere.     *)

InitRead ==
    /\ \E cs \in Layouts :
         LET full == Container(IdTest, cs)
         IN  \E cut \in 0..Len(full) :
               /\ stream = Take(full, cut)
               /\ layout = [chunks |-> cs, cut |-> cut, full |-> Len(full)]
    /\ rpc = "new"
    /\ rd = NewRiffReader(<< >>, 0, FALSE)
    /\ lims = << >>
    /\ calls = << >>
    /\ delivered = << >>
    /\ WriteOff /\ FmtOff /\ WavOff /\ ConvOff /\ TwinOff

\* r, err := riff.NewReader(stream)
RiffOpen ==
    /\ rpc = "new"
    /\ LET n == riffNewReader(stream)
       IN  /\ rpc' = IF n.err = "nil" THEN "open" ELSE "failed"
           /\ rd' = NewRiffReader(n.Form, n.off, n.pad)
    /\ UNCHANGED <<stream, lims, calls, delivered, layout, notRead>>

\* The caller stops at the first error that is not io.EOF.
MayReadChunk ==
    /\ rpc = "open"
    /\ Len(calls) < Len(layout.chunks) + MaxExtra
    /\ \A k \in 1..Len(calls) : calls[k].err \in {"nil", "EOF"}

\* c, err := r.ReadChunk()
DoReadChunk ==
    /\ MayReadChunk
    /\ LET c == ReadChunk(stream, rd, lims)
       IN  /\ rd' = c.r
           /\ lims' = c.ls
           /\ calls' = Append(calls,
                 [err |-> c.err,
                  at  |-> c.r.off,
                  Identifier |-> IF c.err = "nil" THEN c.r.chunk.Identifier ELSE << >>,
                  Size |-> IF c.err = "nil" THEN c.r.chunk.Size ELSE 0,
                  Reader |-> IF c.err = "nil" THEN c.r.chunk.Reader ELSE 0])
           /\ delivered' = IF c.err = "nil"
                           THEN Append(delivered, [bytes |-> << >>, eof |-> FALSE])
                           ELSE delivered
    /\ UNCHANGED <<stream, rpc, layout, notRead>>

\* n, err := c.Reader.Read(p) on any content stream handed out so far
DoReadContent ==
    /\ rpc = "open"
    /\ \E i \in 1..Len(lims), want \in 1..2 :
         LET r == LimitedRead(stream, rd.off, lims[i], want)
         IN  /\ ~delivered[i].eof
             /\ rd' = [rd EXCEPT !.off = r.off]
             /\ lims' = [lims EXCEPT ![i] = r.lim]
             /\ delivered' = [delivered EXCEPT
                    ![i] = [bytes |-> @.bytes \o r.bytes, eof |-> r.err = "EOF"]]
    /\ UNCHANGED <<stream, rpc, calls, layout, notRead>>

NextRead == RiffOpen \/ DoReadChunk \/ DoReadContent

SpecRead == InitRead /\ [][NextRead]_vars

---------------------------------------------------------------------------
(* Claims about the riff.Reader, checked under SpecRead.                   *)

IsPrefix(a, b) == Len(a) <= Len(b) /\ a = SubSeq(b, 1, Len(a))

\* every odd payload is followed by its pad byte and nothing is cut off
WellFormed == layout.cut = layout.full

\* C2: on a well-formed container the k-th ReadChunk call returns the k-th chunk
\* of the layout (identifier, size, a fresh content stream) however much of the
\* earlier content streams the caller read; a content stream hands out only
\* bytes of its own chunk's payload, in order, and a stream that is still valid
\* (no ReadChunk call since it was returned) reports end-of-stream only after
\* the whole payload.
C2_ChunksInOrderAndBounded ==
    WellFormed =>
      /\ \A k \in 1..Len(calls) :
           k <= Len(layout.chunks) =>
             /\ calls[k].err = "nil"
             /\ calls[k].Identifier = layout.chunks[k].id
             /\ calls[k].Size = Len(layout.chunks[k].data)
             /\ calls[k].Reader = k
      /\ \A i \in 1..Len(delivered) :
           /\ i <= Len(layout.chunks)
           /\ IsPrefix(delivered[i].bytes, layout.chunks[i].data)
           /\ (delivered[i].eof /\ calls[Len(calls)].Reader = i) =>
                 delivered[i].bytes = layout.chunks[i].data

\* C2 witness: two chunks, the first odd-sized and only partly read before the
\* second was requested, the second read to its end-of-stream.
C2_Witness ==
    /\ WellFormed
    /\ Len(calls) = 2 /\ calls[2].err = "nil"
    /\ Len(layout.chunks[1].data) = 3
    /\ Len(delivered[1].bytes) = 1
    /\ Len(layout.chunks[2].data) = 2
    /\ delivered[2].eof

\* C3: ReadChunk returns io.EOF itself only when the stream ends exactly where a
\* chunk header starts (after the previous payload and its pad byte); a stream
\* that ends inside a header, a payload or before a pad byte gives another error.
C3_CleanEndOnlyAtBoundary ==
    \A k \in 1..Len(calls) :
        calls[k].err = "EOF" => layout.cut \in Boundaries(layout.chunks, 12)

---------------------------------------------------------------------------
(* io.WriteSeeker over a byte string (os.File): f = [bytes, pos].          *)

\* f.Write(p): overwrite at the position, extending the file at its end
fileWrite(f, p) ==
    [bytes |-> Take(f.bytes, f.pos) \o p \o Drop(f.bytes, f.pos + Len(p)),
     pos   |-> f.pos + Len(p)]

\* f.Seek(offset, whence): a negative resulting position is an error
fileSeek(f, offset, whence) ==
    LET base == CASE whence = "SeekStart"   -> 0
                  [] whence = "SeekCurrent" -> f.pos
                  [] whence = "SeekEnd"     -> Len(f.bytes)
    IN  IF base + offset < 0
        THEN [err |-> "invalid argument", f |-> f]
        ELSE [err |-> "nil", f |-> [f EXCEPT !.pos = base + offset]]

---------------------------------------------------------------------------
(* riff.Writer and chunkWriter.  Every operation returns the file, the     *)
(* Writer's byte count, the error, and the number of Seek and Write calls  *)
(* it issued on the file.                                                  *)

\* riff.NewWriter(ws, form)
riffNewWriter(f, form) ==
    IF Len(form) # 4
    THEN [err |-> "invalid form ID", f |-> f, written |-> 0, ios |-> 0]
    ELSE [err |-> "nil", f |-> fileWrite(f, IdRIFF \o << 0, 0, 0, 0 >> \o form),
          written |-> 4, ios |-> 1]

\* (*Writer).NewChunk(identifier): the identifier and an empty size field
writerNewChunk(f, written, identifier) ==
    IF Len(identifier) # 4
    THEN [err |-> "invalid chunk identifier", f |-> f, written |-> written, ios |-> 0]
    ELSE LET f1 == fileWrite(f, identifier)
             f2 == fileWrite(f1, AppendUint32(0))
         IN  [err |-> "nil", f |-> f2, written |-> written + 4 + 4, ios |-> 2]

\* (*Writer).WriteChunk(c): header with c.Size, then io.Copy of c.Reader
writerWriteChunk(f, written, identifier, size, content) ==
    IF Len(identifier) # 4
    THEN [err |-> "invalid chunk identifier", f |-> f, written |-> written, ios |-> 0]
    ELSE LET f1 == fileWrite(f, identifier)
             f2 == fileWrite(f1, AppendUint32(size))
             f3 == IF content = << >> THEN f2 ELSE fileWrite(f2, content)
         IN  [err |-> "nil", f |-> f3, written |-> written + 4 + 4 + Len(content),
              ios |-> IF content = << >> THEN 2 ELSE 3]

\* (*chunkWriter).Write(p)
chunkWriterWrite(f, cwritten, p) ==
    [err |-> "nil", f |-> fileWrite(f, p), cwritten |-> cwritten + Len(p), ios |-> 1]

\* chunkWriter.Close as it would be if it seeked back over the payload only
chunkWriterCloseShortSeek(f, written, cwritten) ==
    LET s1 == fileSeek(f, -cwritten, "SeekCurrent")
        f2 == fileWrite(s1.f, AppendUint32(cwritten))
        s3 == fileSeek(f2, 0, "SeekEnd")
    IN  [err |-> "nil", f |-> s3.f, written |-> written + cwritten, ios |-> 3]

\* (*chunkWriter).Close(): seek back over the payload and the size field, write
\* the size, seek to the end, add the payload to the Writer's count
chunkWriterClose(f, written, cwritten) ==
    LET s1 == fileSeek(f, -(cwritten + 4), "SeekCurrent")
    IN  IF s1.err # "nil"
        THEN [err |-> s1.err, f |-> f, written |-> written, ios |-> 1]
        ELSE LET f2 == fileWrite(s1.f, AppendUint32(cwritten))
                 s3 == fileSeek(f2, 0, "SeekEnd")
             IN  [err |-> "nil", f |-> s3.f, written |-> written + cwritten, ios |-> 3]

\* (*Writer).Close(): the total size at offset 4
writerClose(f, written) ==
    LET s1 == fileSeek(f, 4, "SeekStart")
    IN  [err |-> "nil", f |-> fileWrite(s1.f, AppendUint32(written)),
         written |-> written, ios |-> 2]

---------------------------------------------------------------------------
(* SpecWrite: a caller drives one riff.Writer: NewChunk, Write and Close   *)
(* on any chunk writer it holds, WriteChunk, and a final Writer.Close.     *)

File == [bytes |-> ws, pos |-> wpos]

InitWrite ==
    /\ LET n == riffNewWriter([bytes |-> << >>, pos |-> 0], IdTest)
       IN  /\ ws = n.f.bytes
           /\ wpos = n.f.pos
           /\ wr = [written |-> n.written, closed |-> FALSE, proper |-> TRUE]
           /\ wlast = [op |-> "NewWriter", err |-> n.err, ios |-> n.ios, arg |-> 0,
                       before |-> 0, outOfOrder |-> FALSE]
    /\ cws = << >>
    /\ wlog = << >>
    /\ ReadOff /\ FmtOff /\ WavOff /\ ConvOff /\ TwinOff

\* some chunk writer has not been closed yet
SomeOpen == \E h \in 1..Len(cws) : cws[h].closes = 0

\* cw, err := w.NewChunk(TestId(k))
DoNewChunk ==
    /\ ~wr.closed
    /\ Len(wlog) < MaxChunks
    /\ LET k == Len(wlog) + 1
           r == writerNewChunk(File, wr.written, TestId(k))
       IN  /\ ws' = r.f.bytes
           /\ wpos' = r.f.pos
           /\ wr' = [wr EXCEPT !.written = r.written, !.proper = @ /\ ~SomeOpen]
           /\ cws' = Append(cws, [written |-> 0, closes |-> 0, chunk |-> k])
           /\ wlog' = Append(wlog, [id |-> TestId(k), data |-> << >>, via |-> "NewChunk",
                                    size |-> 0])
           /\ wlast' = [op |-> "NewChunk", err |-> r.err, ios |-> r.ios, arg |-> k,
                        before |-> wr.written, outOfOrder |-> FALSE]
    /\ UNCHANGED notWrite

\* cw.Write(p) on a chunk writer that has not been closed
DoChunkWrite ==
    /\ ~wr.closed
    /\ \E h \in 1..Len(cws), n \in 1..2 :
         LET k == cws[h].chunk
             have == Len(wlog[k].data)
             p == [j \in 1..n |-> PayloadByte(k, have + j)]
             r == chunkWriterWrite(File, cws[h].written, p)
         IN  /\ cws[h].closes = 0
             /\ have + n <= MaxPayload
             /\ ws' = r.f.bytes
             /\ wpos' = r.f.pos
             /\ cws' = [cws EXCEPT ![h].written = r.cwritten]
             /\ wlog' = [wlog EXCEPT ![k].data = @ \o p]
             /\ wr' = [wr EXCEPT !.proper = @ /\ k = Len(wlog)]
             /\ wlast' = [op |-> "Write", err |-> r.err, ios |-> r.ios, arg |-> h,
                          before |-> wr.written, outOfOrder |-> FALSE]
    /\ UNCHANGED notWrite

\* cw.Close() on any chunk writer handed out, also a second time
DoChunkClose ==
    /\ ~wr.closed
    /\ \E h \in 1..Len(cws) :
         LET r == chunkWriterClose(File, wr.written, cws[h].written)
             late == \/ cws[h].closes >= 1
                     \/ \E k \in (cws[h].chunk + 1)..Len(wlog) : wlog[k].via = "NewChunk"
         IN  /\ cws[h].closes < 2
             /\ ws' = r.f.bytes
             /\ wpos' = r.f.pos
             /\ cws' = [cws EXCEPT ![h].closes = @ + 1]
             /\ wr' = [wr EXCEPT !.written = r.written,
                                 !.proper = @ /\ cws[h].closes = 0
                                              /\ cws[h].chunk = Len(wlog)]
             /\ wlast' = [op |-> "ChunkClose", err |-> r.err, ios |-> r.ios, arg |-> h,
                          before |-> wr.written, outOfOrder |-> late]
    /\ UNCHANGED <<wlog, notWrite>>

\* w.WriteChunk(&Chunk{Identifier, Size, Reader}) with Size the payload length
DoWriteChunk ==
    /\ ~wr.closed
    /\ Len(wlog) < MaxChunks
    /\ \E n \in 0..MaxPayload :
         LET k == Len(wlog) + 1
             p == PayloadOf(k, n)
             r == writerWriteChunk(File, wr.written, TestId(k), n, p)
         IN  /\ ws' = r.f.bytes
             /\ wpos' = r.f.pos
             /\ wr' = [wr EXCEPT !.written = r.written, !.proper = @ /\ ~SomeOpen]
             /\ wlog' = Append(wlog, [id |-> TestId(k), data |-> p, via |-> "WriteChunk",
                                      size |-> n])
             /\ wlast' = [op |-> "WriteChunk", err |-> r.err, ios |-> r.ios, arg |-> k,
                          before |-> wr.written, outOfOrder |-> FALSE]
    /\ UNCHANGED <<cws, notWrite>>

\* w.Close()
DoWriterClose ==
    /\ ~wr.closed
    /\ LET r == writerClose(File, wr.written)
       IN  /\ ws' = r.f.bytes
           /\ wpos' = r.f.pos
           /\ wr' = [wr EXCEPT !.closed = TRUE, !.proper = @ /\ ~SomeOpen]
           /\ wlast' = [op |-> "Close", err |-> r.err, ios |-> r.ios, arg |-> 0,
                        before |-> wr.written, outOfOrder |-> FALSE]
    /\ UNCHANGED <<cws, wlog, notWrite>>

NextWrite == DoNewChunk \/ DoChunkWrite \/ DoChunkClose \/ DoWriteChunk \/ DoWriterClose

SpecWrite == InitWrite /\ [][NextWrite]_vars

---------------------------------------------------------------------------
(* Reading a whole container back, as the round-trip test does: NewReader, *)
(* then ReadChunk and io.ReadAll of the chunk's stream until an error.     *)

\* io.ReadAll(c.Reader): Read until io.EOF
RECURSIVE ioReadAll(_, _, _, _)
ioReadAll(data, off, lim, acc) ==
    LET r == LimitedRead(data, off, lim, 512)
    IN  IF r.err = "EOF" THEN [bytes |-> acc, off |-> off, lim |-> lim]
        ELSE ioReadAll(data, r.off, r.lim, acc \o r.bytes)

RECURSIVE readChunks(_, _, _, _)
readChunks(data, r, ls, acc) ==
    LET c == ReadChunk(data, r, ls)
    IN  IF c.err # "nil" THEN [chunks |-> acc, err |-> c.err]
        ELSE LET a == ioReadAll(data, c.r.off, c.ls[c.r.chunk.Reader], << >>)
             IN  readChunks(data, [c.r EXCEPT !.off = a.off],
                            [c.ls EXCEPT ![c.r.chunk.Reader] = a.lim],
                            Append(acc, [id |-> c.r.chunk.Identifier,
                                         size |-> c.r.chunk.Size, data |-> a.bytes]))

ReadBack(data) ==
    LET n == riffNewReader(data)
    IN  IF n.err # "nil" THEN [form |-> << >>, chunks |-> << >>, err |-> n.err]
        ELSE LET c == readChunks(data, NewRiffReader(n.Form, n.off, n.pad), << >>, << >>)
             IN  [form |-> n.Form, chunks |-> c.chunks, err |-> c.err]

---------------------------------------------------------------------------
(* Claims about the riff.Writer, checked under SpecWrite.                  *)

Written == [k \in 1..Len(wlog) |->
              [id |-> wlog[k].id, size |-> Len(wlog[k].data), data |-> wlog[k].data]]

\* C1: container round trip.  After chunks were written in order, each through
\* NewChunk/Write/Close or through WriteChunk with Size the payload length, and
\* the Writer was closed, a Reader on the bytes returns exactly those chunks
\* (identifier, Size, payload) in order and then the end-of-container signal.
C1_RoundTrip ==
    (wr.closed /\ wr.proper) =>
        ReadBack(ws) = [form |-> IdTest, chunks |-> Written, err |-> "EOF"]

\* what a Writer used in order leaves on the stream: header, total size, form
\* tag, then identifier, size and payload of every chunk
RECURSIVE Emitted(_)
Emitted(cs) ==
    IF cs = << >> THEN << >>
    ELSE Head(cs).id \o AppendUint32(Len(Head(cs).data)) \o Head(cs).data
           \o Emitted(Tail(cs))

RECURSIVE TotalOf(_)
TotalOf(cs) == IF cs = << >> THEN 4 ELSE 8 + Len(Head(cs).data) + TotalOf(Tail(cs))

OnlyNewChunk == \A k \in 1..Len(wlog) : wlog[k].via = "NewChunk"

\* C4: after chunks were written one at a time through NewChunk, Write and Close
\* and the Writer was closed, every size field holds its chunk's payload length,
\* the total-size field holds 4 + sum of (8 + payload length) = stream length - 8,
\* and every identifier and payload byte is as it was written.
C4_BackpatchedSizes ==
    (wr.closed /\ wr.proper /\ OnlyNewChunk) =>
        /\ ws = IdRIFF \o AppendUint32(TotalOf(wlog)) \o IdTest \o Emitted(wlog)
        /\ TotalOf(wlog) = Len(ws) - 8

\* C4 witness: two chunks written one at a time, one of them with an odd payload
C4_Witness ==
    /\ wr.closed /\ wr.proper /\ OnlyNewChunk
    /\ Len(wlog) = 2
    /\ Len(wlog[1].data) = 3
    /\ Len(wlog[2].data) = 2

\* C5: Close on a chunk writer out of order (NewChunk was called again while it
\* was open, or it was closed before) returns an error before any Seek or Write
\* on the stream, and leaves the Writer's running total as it was.
C5_OutOfOrderCloseRejected ==
    (wlast.op = "ChunkClose" /\ wlast.outOfOrder) =>
        /\ wlast.err # "nil"
        /\ wlast.ios = 0
        /\ wr.written = wlast.before

---------------------------------------------------------------------------
(* The format descriptor: fmtChunk, readFmtChunk, writeFmtChunk.           *)
(* uint32 fields hold values below 2^31 in this model.                     *)

PCM        == 1
IEEEFloat  == 3
ALaw       == 6
MuLaw      == 7
Extensible == 65534

fmtMagic == << 0, 0, 0, 0, 16, 0, 128, 0, 0, 170, 0, 56, 155, 113 >>

ZeroFmt == [format |-> 0, channels |-> 0, sampleRate |-> 0, dataRate |-> 0,
            blockAlign |-> 0, bitsPerSample |-> 0, validBitsPerSample |-> 0,
            channelMask |-> 0, subFormat |-> 0]

\* binary.LittleEndian.Uint16 / AppendUint16
Uint16(b) == b[1] + 256 * b[2]
AppendUint16(u) == << u % 256, (u \div 256) % 256 >>

\* io.ReadFull on an io.LimitedReader with N = lim (a plain reader has lim = -1)
ReadFullLimited(data, off, lim, want) ==
    LET avail == Max(Len(data) - off, 0)
        n == IF lim < 0 THEN Min(want, avail) ELSE Min(want, Min(lim, avail))
    IN  [n |-> n, off |-> off + n, lim |-> IF lim < 0 THEN lim ELSE lim - n,
         bytes |-> SubSeq(data, off + 1, off + n),
         err |-> IF n = want THEN "nil"
                 ELSE IF n = 0 THEN "EOF" ELSE "ErrUnexpectedEOF"]

\* the deferred function of readFmtChunk: any io.EOF is an unexpected EOF
notEOF(err) == IF err = "EOF" THEN "unexpected EOF" ELSE err

\* the sub-format switch of readFmtChunk, as it would be if only Extensible were refused
subFormatErrorLax(sub) ==
    IF sub = Extensible THEN "invalid subformat Extensible" ELSE "nil"

\* the sub-format switch of readFmtChunk
subFormatError(sub) ==
    IF sub = Extensible THEN "invalid subformat Extensible"
    ELSE IF sub \in {PCM, ALaw, MuLaw, IEEEFloat} THEN "nil"
    ELSE "invalid/unknown subformat"

\* the mandatory 16 bytes
mandatoryFields(raw) ==
    [ZeroFmt EXCEPT !.format = Uint16(SubSeq(raw, 1, 2)),
                    !.channels = Uint16(SubSeq(raw, 3, 4)),
                    !.sampleRate = Uint32(SubSeq(raw, 5, 8)),
                    !.dataRate = Uint32(SubSeq(raw, 9, 12)),
                    !.blockAlign = Uint16(SubSeq(raw, 13, 14)),
                    !.bitsPerSample = Uint16(SubSeq(raw, 15, 16))]

\* readFmtChunk(r): r reads data from off, limited to lim bytes (lim = -1: no limit)
readFmtChunk(data, off, lim) ==
    LET m  == ReadFullLimited(data, off, lim, 16)
        fail(e, at) == [err |-> notEOF(e), fc |-> ZeroFmt, off |-> at.off, lim |-> at.lim]
    IN  IF m.err # "nil" THEN fail(m.err, m)
        ELSE LET fc == mandatoryFields(m.bytes)
             IN  CASE fc.format = PCM ->
                        [err |-> "nil", fc |-> fc, off |-> m.off, lim |-> m.lim]
                   [] fc.format \in {ALaw, MuLaw} ->
                        LET cb == ReadFullLimited(data, m.off, m.lim, 2)
                        IN  IF cb.err # "nil" THEN fail(cb.err, cb)
                            ELSE IF Uint16(cb.bytes) # 0 THEN fail("expect cbSize 0", cb)
                            ELSE IF fc.bitsPerSample # 8
                            THEN fail("expect 8 bits per sample", cb)
                            ELSE [err |-> "nil", fc |-> fc, off |-> cb.off, lim |-> cb.lim]
                   [] fc.format = Extensible ->
                        LET ext == ReadFullLimited(data, m.off, m.lim, 24)
                        IN  IF ext.err # "nil" THEN fail(ext.err, ext)
                            ELSE IF Uint16(SubSeq(ext.bytes, 1, 2)) # 22
                            THEN fail("expect cbSize 22", ext)
                            ELSE LET sub == Uint16(SubSeq(ext.bytes, 9, 10))
                                     full == [fc EXCEPT
                                        !.validBitsPerSample = Uint16(SubSeq(ext.bytes, 3, 4)),
                                        !.channelMask = Uint32(SubSeq(ext.bytes, 5, 8)),
                                        !.subFormat = sub]
                                 IN  IF subFormatError(sub) # "nil"
                                     THEN fail(subFormatError(sub), ext)
                                     ELSE IF SubSeq(ext.bytes, 11, 24) # fmtMagic
                                     THEN fail("bad magic string", ext)
                                     ELSE [err |-> "nil", fc |-> full, off |-> ext.off,
                                           lim |-> ext.lim]
                   [] OTHER -> fail("unknown wav format", m)

\* the extension writeFmtChunk appends, as it would be without the A-law/mu-law case
fmtExtensionNoLaw(fc) ==
    IF fc.format = Extensible
    THEN AppendUint16(22) \o AppendUint16(fc.validBitsPerSample)
           \o AppendUint32(fc.channelMask) \o AppendUint16(fc.subFormat) \o fmtMagic
    ELSE << >>

\* the extension writeFmtChunk appends after the mandatory fields
fmtExtension(fc) ==
    CASE fc.format = PCM -> << >>
      [] fc.format \in {ALaw, MuLaw} -> AppendUint16(0)
      [] fc.format = Extensible ->
            AppendUint16(22) \o AppendUint16(fc.validBitsPerSample)
              \o AppendUint32(fc.channelMask) \o AppendUint16(fc.subFormat) \o fmtMagic
      [] OTHER -> << >>

\* writeFmtChunk(w, fc): the bytes of its single Write
writeFmtChunk(fc) ==
    AppendUint16(fc.format) \o AppendUint16(fc.channels) \o AppendUint32(fc.sampleRate)
      \o AppendUint32(fc.dataRate) \o AppendUint16(fc.blockAlign)
      \o AppendUint16(fc.bitsPerSample) \o fmtExtension(fc)

---------------------------------------------------------------------------
(* SpecFmt: readFmtChunk on descriptor bytes that are laid out from field  *)
(* values and cut short or extended, then writeFmtChunk on what was parsed *)
(* and readFmtChunk again.                                                 *)

FmtInputs ==
    { Take(AppendUint16(tag) \o AppendUint16(ch) \o AppendUint32(22050)
             \o AppendUint32(22050 * ch) \o AppendUint16(4096) \o AppendUint16(bits)
             \o AppendUint16(cb) \o AppendUint16(24) \o AppendUint32(mask)
             \o AppendUint16(sub) \o [fmtMagic EXCEPT ![10] = trailer] \o << 7, 7 >>,
           cut) :
        tag \in {PCM, IEEEFloat, ALaw, MuLaw, Extensible, 2},
        ch \in {1, 3}, bits \in {8, 16}, cb \in {0, 1, 22}, mask \in {0, 5},
        sub \in {PCM, IEEEFloat, ALaw, MuLaw, Extensible, 255},
        trailer \in {170, 171},
        cut \in {0, 2, 15, 16, 17, 18, 39, 40, 42} }

InitFmt ==
    /\ fin \in FmtInputs
    /\ fpc = "input"
    /\ fres = "none" /\ fser = << >> /\ fre = "none"
    /\ ff = "none" /\ fder = "none"
    /\ ReadOff /\ WriteOff /\ WavOff /\ ConvOff /\ TwinOff

\* fc, err := readFmtChunk(bytes.NewReader(in))
FmtParse ==
    /\ fpc = "input"
    /\ fres' = readFmtChunk(fin, 0, -1)
    /\ fpc' = "parsed"
    /\ UNCHANGED <<fin, fser, fre, ff, fder, notFmt>>

\* writeFmtChunk(w, fc) for a descriptor that parsed
FmtSerialize ==
    /\ fpc = "parsed"
    /\ fres.err = "nil"
    /\ fser' = writeFmtChunk(fres.fc)
    /\ fpc' = "serialized"
    /\ UNCHANGED <<fin, fres, fre, ff, fder, notFmt>>

\* readFmtChunk on what writeFmtChunk wrote
FmtReparse ==
    /\ fpc = "serialized"
    /\ fre' = readFmtChunk(fser, 0, -1)
    /\ fpc' = "reparsed"
    /\ UNCHANGED <<fin, fres, fser, ff, fder, notFmt>>

NextFmt == FmtParse \/ FmtSerialize \/ FmtReparse

SpecFmt == InitFmt /\ [][NextFmt]_vars

---------------------------------------------------------------------------
(* Claims about the descriptor codec, checked under SpecFmt.               *)

U16At(b, at) == b[at + 1] + 256 * b[at + 2]
U32At(b, at) == b[at + 1] + 256 * b[at + 2] + 65536 * b[at + 3] + 16777216 * b[at + 4]

\* the inputs the descriptor parse is said to accept
Acceptable(b) ==
    /\ Len(b) >= 16
    /\ \/ U16At(b, 0) = 1
       \/ /\ U16At(b, 0) \in {6, 7}
          /\ Len(b) >= 18 /\ U16At(b, 16) = 0
          /\ U16At(b, 14) = 8
       \/ /\ U16At(b, 0) = 65534
          /\ Len(b) >= 40 /\ U16At(b, 16) = 22
          /\ U16At(b, 24) \in {1, 6, 7, 3}
          /\ SubSeq(b, 27, 40) = << 0, 0, 0, 0, 16, 0, 128, 0, 0, 170, 0, 56, 155, 113 >>

\* the number of bytes an accepted descriptor takes
DescriptorLen(tag) == IF tag = 1 THEN 16 ELSE IF tag = 65534 THEN 40 ELSE 18

\* C7: readFmtChunk succeeds exactly on the acceptable inputs; on success it has
\* consumed 16, 18 or 40 bytes and every returned field is the little-endian
\* value at its offset (the extension fields zero unless extensible); otherwise
\* it returns an error that is not io.EOF.
C7_ParseAcceptsExactly ==
    fpc \in {"parsed", "serialized", "reparsed"} =>
      /\ fres.err = "nil" <=> Acceptable(fin)
      /\ fres.err # "EOF"
      /\ fres.err = "nil" =>
           /\ fres.off = DescriptorLen(U16At(fin, 0))
           /\ fres.fc.format = U16At(fin, 0)
           /\ fres.fc.channels = U16At(fin, 2)
           /\ fres.fc.sampleRate = U32At(fin, 4)
           /\ fres.fc.dataRate = U32At(fin, 8)
           /\ fres.fc.blockAlign = U16At(fin, 12)
           /\ fres.fc.bitsPerSample = U16At(fin, 14)
           /\ fres.fc.validBitsPerSample =
                 IF U16At(fin, 0) = 65534 THEN U16At(fin, 18) ELSE 0
           /\ fres.fc.channelMask = IF U16At(fin, 0) = 65534 THEN U32At(fin, 20) ELSE 0
           /\ fres.fc.subFormat = IF U16At(fin, 0) = 65534 THEN U16At(fin, 24) ELSE 0

\* C7 witness: an extensible descriptor with an IEEE-float sub-format was parsed
C7_Witness ==
    /\ fpc = "parsed" /\ fres.err = "nil"
    /\ fres.fc.format = Extensible /\ fres.fc.subFormat = IEEEFloat
    /\ fres.fc.channels = 3 /\ fres.fc.channelMask = 5

\* C8: for every descriptor the parse accepts, writeFmtChunk emits 16 bytes
\* (linear PCM), 18 bytes ending in extension size 0 (A-law, mu-law) or 40 bytes
\* (extensible: extension size 22, valid bits, channel mask, sub-format tag, the
\* 14-byte trailer), and parsing those bytes gives the same descriptor back.
C8_SerializeInvertsParse ==
    /\ fpc \in {"serialized", "reparsed"} =>
         /\ Len(fser) = DescriptorLen(fres.fc.format)
         /\ fres.fc.format \in {6, 7} => U16At(fser, 16) = 0
         /\ fres.fc.format = 65534 =>
              /\ U16At(fser, 16) = 22
              /\ U16At(fser, 18) = fres.fc.validBitsPerSample
              /\ U32At(fser, 20) = fres.fc.channelMask
              /\ U16At(fser, 24) = fres.fc.subFormat
              /\ SubSeq(fser, 27, 40) =
                    << 0, 0, 0, 0, 16, 0, 128, 0, 0, 170, 0, 56, 155, 113 >>
    /\ fpc = "reparsed" =>
         /\ fre.err = "nil"
         /\ fre.fc = fres.fc
         /\ fre.off = Len(fser)

\* C8 witness: a mu-law descriptor went through parse, serialize and parse
C8_Witness ==
    /\ fpc = "reparsed"
    /\ fres.fc.format = MuLaw
    /\ fre.err = "nil"

---------------------------------------------------------------------------
(* FileFormat.chunk(): the descriptor a Writer derives from the caller's   *)
(* FileFormat.  Go converts int to uint16 by keeping the low 16 bits.      *)

\* uint16(x)
uint16of(x) == x % 65536

\* uint32(x), for the values 0 <= x < 2^31 this model draws
uint32of(x) == x

\* chunk() as it would be if it took the bit depth for the width in bytes
chunkBitsAsBytes(f) ==
    [ZeroFmt EXCEPT
        !.format = f.Format,
        !.channels = uint16of(f.Channels),
        !.sampleRate = uint32of(f.SampleRate),
        !.dataRate = uint32of(f.BitDepth * f.Channels * f.SampleRate),
        !.blockAlign = uint16of(f.BitDepth * f.Channels),
        !.bitsPerSample = uint16of(f.BitDepth)]

\* (FileFormat).chunk()
chunk(f) ==
    LET bytesPerSample == Max(8, f.BitDepth) \div 8
    IN  [ZeroFmt EXCEPT
            !.format = f.Format,
            !.channels = uint16of(f.Channels),
            !.sampleRate = uint32of(f.SampleRate),
            !.dataRate = uint32of(bytesPerSample * f.Channels * f.SampleRate),
            !.blockAlign = uint16of(bytesPerSample * f.Channels),
            !.bitsPerSample = uint16of(f.BitDepth)]

---------------------------------------------------------------------------
(* SpecFormat: chunk() on the FileFormats a caller can pass.  The fields   *)
(* are Go ints, so channel counts beyond 16 bits are included.              *)

FileFormats ==
    [Format : {PCM, IEEEFloat, ALaw, MuLaw, Extensible},
     BitDepth : {0, 8, 12, 16, 24, 32},
     Channels : {0, 1, 2, 65535, 65536, 65538},
     SampleRate : {0, 1, 8000}]

InitFormat ==
    /\ ff \in FileFormats
    /\ fpc = "format"
    /\ fder = "none"
    /\ fin = << >> /\ fres = "none" /\ fser = << >> /\ fre = "none"
    /\ ReadOff /\ WriteOff /\ WavOff /\ ConvOff /\ TwinOff

\* fc, err := ff.chunk()
FormatDerive ==
    /\ fpc = "format"
    /\ fder' = chunk(ff)
    /\ fpc' = "derived"
    /\ UNCHANGED <<fin, fres, fser, fre, ff, notFmt>>

NextFormat == FormatDerive

SpecFormat == InitFormat /\ [][NextFormat]_vars

\* C9: for every FileFormat the derived descriptor has byte rate = bytesPerSample
\* x channels x sample rate and block alignment = bytesPerSample x channels, with
\* bytesPerSample = max(8, bit depth) / 8 (integer division), and its encoding
\* tag, channel count, sample rate and bits per sample are the caller's values.
C9_DerivedDescriptor ==
    fpc = "derived" =>
      LET bps == (IF ff.BitDepth > 8 THEN ff.BitDepth ELSE 8) \div 8
      IN  /\ fder.dataRate = bps * ff.Channels * ff.SampleRate
          /\ fder.blockAlign = bps * ff.Channels
          /\ fder.format = ff.Format
          /\ fder.channels = ff.Channels
          /\ fder.sampleRate = ff.SampleRate
          /\ fder.bitsPerSample = ff.BitDepth

---------------------------------------------------------------------------
(* wav.NewReader, one step per chunk it asks the riff.Reader for.  W is the *)
(* state of the call: pc says where it stands ("riff", "fmt", "scan"), or   *)
(* that it returned a Reader ("ready") or an error ("failed"); r and ls are *)
(* the riff.Reader and the content streams it has issued.                   *)

NoReader == [pc |-> "riff", err |-> "nil", r |-> NewRiffReader(<< >>, 0, FALSE), ls |-> << >>,
             fmt |-> ZeroFmt, data |-> 0, dataBytes |-> 0]

wavFail(W, e) == [W EXCEPT !.pc = "failed", !.err = e]

\* NewReader after rr, err := riff.NewReader(r), n being what that returned:
\* the check of err and of rr.Form
wavOpened(W, n) ==
    IF n.err # "nil" THEN wavFail([W EXCEPT !.r = NewRiffReader(n.Form, n.off, n.pad)], n.err)
    ELSE IF n.Form # IdWAVE
    THEN wavFail([W EXCEPT !.r = NewRiffReader(n.Form, n.off, n.pad)], "bad wav file form")
    ELSE [W EXCEPT !.r = NewRiffReader(n.Form, n.off, n.pad), !.pc = "fmt"]

wavOpenRiff(data, W) == wavOpened(W, riffNewReader(data))

\* NewReader after fc, err := readFmtChunk(chunk.Reader), f being what that
\* returned and i the content stream it read from
wavDescriptor(W, i, f) ==
    IF f.err # "nil" THEN wavFail([W EXCEPT !.r.off = f.off, !.ls[i] = f.lim], f.err)
    ELSE [W EXCEPT !.r.off = f.off, !.ls[i] = f.lim, !.pc = "scan", !.fmt = f.fc]

\* NewReader after chunk, err := rr.ReadChunk(), c being what that returned:
\* the checks of err and of the identifier, then readFmtChunk(chunk.Reader)
wavFirstChunk(data, W, c) ==
    IF c.err # "nil" THEN wavFail([W EXCEPT !.r = c.r, !.ls = c.ls], c.err)
    ELSE IF c.r.chunk.Identifier # IdFmt
    THEN wavFail([W EXCEPT !.r = c.r, !.ls = c.ls], "expected fmt chunk")
    ELSE wavDescriptor([W EXCEPT !.r = c.r, !.ls = c.ls], c.r.chunk.Reader,
                       readFmtChunk(data, c.r.off, c.ls[c.r.chunk.Reader]))

wavReadFmt(data, W) == wavFirstChunk(data, W, ReadChunk(data, W.r, W.ls))

\* one turn of the loop that finds the data chunk, c being what ReadChunk returned
wavNextChunk(W, c) ==
    IF c.err = "EOF"
    THEN wavFail([W EXCEPT !.r = c.r, !.ls = c.ls], "finding data chunk: unexpected EOF")
    ELSE IF c.err # "nil" THEN wavFail([W EXCEPT !.r = c.r, !.ls = c.ls], c.err)
    ELSE IF c.r.chunk.Identifier = IdData
    THEN [W EXCEPT !.r = c.r, !.ls = c.ls, !.pc = "ready", !.data = c.r.chunk.Reader,
                   !.dataBytes = c.r.chunk.Size]
    ELSE [W EXCEPT !.r = c.r, !.ls = c.ls]

wavScan(data, W) == wavNextChunk(W, ReadChunk(data, W.r, W.ls))

wavStep(data, W) ==
    CASE W.pc = "riff" -> wavOpenRiff(data, W)
      [] W.pc = "fmt"  -> wavReadFmt(data, W)
      [] W.pc = "scan" -> wavScan(data, W)
      [] OTHER         -> W

\* wav.NewReader(r) as a whole
RECURSIVE wavRun(_, _)
wavRun(data, W) == IF W.pc \in {"ready", "failed"} THEN W ELSE wavRun(data, wavStep(data, W))

wavNewReader(data) == wavRun(data, NoReader)

---------------------------------------------------------------------------
(* SpecWavOpen: wav.NewReader on containers whose first chunk is a format   *)
(* descriptor or something else, followed by LIST and data chunks of every  *)
(* small size, whole or with a few bytes missing at the end.                *)

MaxCutBack == 4

PCM16 == [ZeroFmt EXCEPT !.format = PCM, !.channels = 2, !.sampleRate = 8000,
                         !.dataRate = 32000, !.blockAlign = 4, !.bitsPerSample = 16]

FirstChunks ==
    { [id |-> IdFmt, data |-> writeFmtChunk(PCM16)],
      [id |-> IdFmt, data |-> writeFmtChunk(PCM16) \o << 0, 0 >>],
      [id |-> IdFmt, data |-> writeFmtChunk([PCM16 EXCEPT !.format = 2])],
      [id |-> IdFmt, data |-> Take(writeFmtChunk(PCM16), 3)],
      [id |-> IdLIST, data |-> PayloadOf(1, 2)],
      [id |-> IdData, data |-> PayloadOf(1, 2)] }

OtherChunks ==
    UNION { { [k \in 1..n |-> [id |-> ids[k], data |-> PayloadOf(k + 1, sz[k])]] :
              ids \in [1..n -> {IdLIST, IdData}], sz \in [1..n -> 0..MaxPayload] } :
            n \in 0..MaxChunks }

WavLayouts ==
    { [form |-> IdWAVE, chunks |-> << >>] }
      \cup { [form |-> IdTest, chunks |-> << [id |-> IdFmt, data |-> writeFmtChunk(PCM16)] >>] }
      \cup { [form |-> IdWAVE, chunks |-> << f >> \o cs] : f \in FirstChunks, cs \in OtherChunks }

InitWavOpen ==
    /\ \E l \in WavLayouts :
         LET full == Container(l.form, l.chunks)
         IN  \E back \in 0..MaxCutBack :
               /\ stream = Take(full, Len(full) - back)
               /\ layout = [form |-> l.form, chunks |-> l.chunks,
                            cut |-> Len(full) - back, full |-> Len(full)]
    /\ wavr = NoReader
    /\ rpc = "wav" /\ rd = NewRiffReader(<< >>, 0, FALSE) /\ lims = << >>
    /\ calls = << >> /\ delivered = << >>
    /\ wavw = [pc |-> "off"] /\ sbufs = << >> /\ sent = << >> /\ slast = NoSampleOp
    /\ WriteOff /\ FmtOff /\ ConvOff /\ TwinOff

notWavOpen == <<stream, layout, rpc, rd, lims, calls, delivered, wavw, sbufs, sent, slast,
                writeVars, fmtVars, convVars, twinVars>>

WavOpenRiff ==
    /\ wavr.pc = "riff"
    /\ wavr' = wavOpenRiff(stream, wavr)
    /\ UNCHANGED notWavOpen

WavReadFmt ==
    /\ wavr.pc = "fmt"
    /\ wavr' = wavReadFmt(stream, wavr)
    /\ UNCHANGED notWavOpen

WavScan ==
    /\ wavr.pc = "scan"
    /\ wavr' = wavScan(stream, wavr)
    /\ UNCHANGED notWavOpen

NextWavOpen == WavOpenRiff \/ WavReadFmt \/ WavScan

SpecWavOpen == InitWavOpen /\ [][NextWavOpen]_vars

\* NewReader has returned
Returned == wavr.pc \in {"ready", "failed"}

\* the chunks after the first, up to the first one called "data"
DataAt(k) ==
    /\ k \in 2..Len(layout.chunks)
    /\ layout.chunks[k].id = IdData
    /\ \A j \in 2..(k - 1) : layout.chunks[j].id # IdData

FmtFirst ==
    /\ layout.form = IdWAVE
    /\ Len(layout.chunks) >= 1
    /\ layout.chunks[1].id = IdFmt
    /\ Acceptable(layout.chunks[1].data)

\* a Reader is returned only for form WAVE, a first chunk "fmt " that parses and
\* a later "data" chunk, and it is bound to the first such chunk
C6_OnlyIf ==
    wavr.pc = "ready" =>
      /\ FmtFirst
      /\ \E k \in 2..Len(layout.chunks) :
           /\ DataAt(k)
           /\ wavr.dataBytes = Len(layout.chunks[k].data)
           /\ wavr.fmt = PCM16

\* whatever lies between the descriptor and the data chunk is skipped
C6_SkipsOthers ==
    (Returned /\ WellFormed /\ FmtFirst /\ \E k \in 2..Len(layout.chunks) : DataAt(k))
      => wavr.pc = "ready"

\* the container ends with no "data" chunk after the first chunk: an error that
\* is not io.EOF
C6_NoCleanEnd ==
    (Returned /\ WellFormed /\ ~ \E k \in 2..Len(layout.chunks) : DataAt(k))
      => wavr.pc = "failed" /\ wavr.err # "EOF"

\* C6: wav.NewReader returns a Reader only when the form is WAVE, the first chunk
\* is "fmt " with a descriptor that parses, and a "data" chunk follows; chunks in
\* between are skipped whatever their size; when the container ends without a
\* data chunk the error is never io.EOF.
C6_NewReader ==
    C6_OnlyIf /\ C6_SkipsOthers /\ C6_NoCleanEnd

---------------------------------------------------------------------------
(* Sample decoding: the wav.Reader's ReadXX methods and readInto.  R is a   *)
(* Reader as NewReader returned it: R.fmt, R.data (the data chunk's content *)
(* stream, R.ls[R.data] bytes left of it) and R.r.off, the position in the  *)
(* underlying stream.  A sample value is a record: its Go type, how it was  *)
(* computed, and the integer or the raw bytes it was computed from; a float *)
(* is kept as the bytes or the integer it is converted from.                *)

Sample(type, from, v) == [type |-> type, from |-> from, v |-> v]

\* what a caller's buffer holds at [c][j] before the call
Old(c, j) == Sample("old", "caller", << c, j >>)

\* int16(u) and byte(x) conversions
int16of(u) == IF u % 65536 >= 32768 THEN (u % 65536) - 65536 ELSE u % 65536
byteof(x)  == x % 256

\* (r *Reader) Format()
Format(fc) == IF fc.format = Extensible THEN fc.subFormat ELSE fc.format

\* int16ToByte(i): i >> 8, then + 128
int16ToByte(i) == byteof((i \div 256) + 128)

\* nextInt16 as it would be if it returned raw[:2], not moving along
nextInt16Stuck(raw) ==
    IF Len(raw) < 2 THEN [ok |-> FALSE, x |-> << >>, raw |-> raw]
    ELSE [ok |-> TRUE, x |-> << int16of(Uint16(raw)) >>, raw |-> Take(raw, 2)]

\* nextByte, nextInt16, nextFloat32, nextFloat64: the value and the raw slice
\* returned; ok is FALSE where the Go code panics (slice too short)
nextByte(raw) ==
    IF Len(raw) < 1 THEN [ok |-> FALSE, x |-> << >>, raw |-> raw]
    ELSE [ok |-> TRUE, x |-> << raw[1] >>, raw |-> Drop(raw, 1)]

nextInt16(raw) ==
    IF Len(raw) < 2 THEN [ok |-> FALSE, x |-> << >>, raw |-> raw]
    ELSE [ok |-> TRUE, x |-> << int16of(Uint16(raw)) >>, raw |-> Drop(raw, 2)]

nextFloat32(raw) ==
    IF Len(raw) < 4 THEN [ok |-> FALSE, x |-> << >>, raw |-> raw]
    ELSE [ok |-> TRUE, x |-> Take(raw, 4), raw |-> Take(raw, 4)]

nextFloat64(raw) ==
    IF Len(raw) < 8 THEN [ok |-> FALSE, x |-> << >>, raw |-> raw]
    ELSE [ok |-> TRUE, x |-> Take(raw, 8), raw |-> Take(raw, 8)]

\* the nextSample closures the ReadXX methods build, by name; "nil" is the
\* closure left unset
nextSample(name, raw) ==
    CASE name = "nextByte" ->
           LET a == nextByte(raw)
           IN  [ok |-> a.ok, raw |-> a.raw, val |-> Sample("byte", "pcm8", a.x)]
      [] name = "int16ToByte" ->
           LET a == nextInt16(raw)
           IN  [ok |-> a.ok, raw |-> a.raw,
                val |-> Sample("byte", "pcm16",
                               IF a.ok THEN << int16ToByte(a.x[1]) >> ELSE << >>)]
      [] name = "byteToInt16" ->
           LET a == nextByte(raw)
           IN  [ok |-> a.ok, raw |-> a.raw,
                val |-> Sample("int16", "pcm8",
                               IF a.ok THEN << int16of((a.x[1] - 128) * 256) >> ELSE << >>)]
      [] name = "nextInt16" ->
           LET a == nextInt16(raw)
           IN  [ok |-> a.ok, raw |-> a.raw, val |-> Sample("int16", "pcm16", a.x)]
      [] name \in {"byteToFloat32", "byteToFloat64"} ->
           LET a == nextByte(raw)
           IN  [ok |-> a.ok, raw |-> a.raw,
                val |-> Sample(IF name = "byteToFloat32" THEN "float32" ELSE "float64",
                               "pcm8", a.x)]
      [] name \in {"int16ToFloat32", "int16ToFloat64"} ->
           LET a == nextInt16(raw)
           IN  [ok |-> a.ok, raw |-> a.raw,
                val |-> Sample(IF name = "int16ToFloat32" THEN "float32" ELSE "float64",
                               "pcm16", a.x)]
      [] name \in {"nextFloat32", "float32To64"} ->
           LET a == nextFloat32(raw)
           IN  [ok |-> a.ok, raw |-> a.raw,
                val |-> Sample(IF name = "nextFloat32" THEN "float32" ELSE "float64",
                               "float32bits", a.x)]
      [] name \in {"nextFloat64", "float64To32"} ->
           LET a == nextFloat64(raw)
           IN  [ok |-> a.ok, raw |-> a.raw,
                val |-> Sample(IF name = "nextFloat64" THEN "float64" ELSE "float32",
                               "float64bits", a.x)]
      [] OTHER -> [ok |-> FALSE, raw |-> raw, val |-> Sample("none", "nil", << >>)]

\* the switch at the head of each ReadXX: the closure chosen, or the error
Chosen(name) == [err |-> "nil", next |-> name]
NotImplemented(what) == [err |-> what, next |-> "nil"]

selRead8PCM(fc) ==
    IF Format(fc) = PCM
    THEN IF fc.bitsPerSample <= 8 THEN Chosen("nextByte")
         ELSE IF fc.bitsPerSample <= 16 THEN Chosen("int16ToByte")
         ELSE NotImplemented("bit depth -> byte not implemented")
    ELSE NotImplemented("format -> PCM not implemented")

selRead16PCM(fc) ==
    IF Format(fc) = PCM
    THEN IF fc.bitsPerSample <= 8 THEN Chosen("byteToInt16")
         ELSE IF fc.bitsPerSample <= 16 THEN Chosen("nextInt16")
         ELSE NotImplemented("bit depth -> int16 not implemented")
    ELSE NotImplemented("format -> PCM not implemented")

selRead32Float(fc) ==
    CASE Format(fc) = PCM ->
           IF fc.bitsPerSample <= 8 THEN Chosen("byteToFloat32")
           ELSE IF fc.bitsPerSample <= 16 THEN Chosen("int16ToFloat32")
           ELSE NotImplemented("PCM bit depth -> float 32 not implemented")
      [] Format(fc) = IEEEFloat ->
           IF fc.bitsPerSample <= 32 THEN Chosen("nextFloat32")
           ELSE IF fc.bitsPerSample <= 64 THEN Chosen("float64To32")
           ELSE NotImplemented("bit depth -> 32 not implemented")
      [] OTHER -> Chosen("nil")

selRead64Float(fc) ==
    CASE Format(fc) = PCM ->
           IF fc.bitsPerSample <= 8 THEN Chosen("byteToFloat64")
           ELSE IF fc.bitsPerSample <= 16 THEN Chosen("int16ToFloat64")
           ELSE NotImplemented("PCM bit depth -> float 32 not implemented")
      [] Format(fc) = IEEEFloat ->
           IF fc.bitsPerSample <= 32 THEN Chosen("float32To64")
           ELSE IF fc.bitsPerSample <= 64 THEN Chosen("nextFloat64")
           ELSE NotImplemented("bit depth -> 32 not implemented")
      [] OTHER -> Chosen("nil")

\* readN as it would be if it read from the file and not from the data chunk's stream
readNUnlimited(data, R, n) ==
    LET a == ReadFull(data, R.r.off, n)
    IN  [err |-> a.err, bytes |-> a.bytes,
         R |-> [R EXCEPT !.r.off = a.off, !.ls[R.data] = Max(R.ls[R.data] - a.n, 0)],
         ios |-> 1]

\* readN as it would be if it used a plain Read and dropped a short read's error
readNLenient(data, R, n) ==
    LET a == ReadFullLimited(data, R.r.off, R.ls[R.data], n)
    IN  [err |-> "nil", bytes |-> a.bytes,
         R |-> [R EXCEPT !.r.off = a.off, !.ls[R.data] = a.lim], ios |-> 1]

\* (r *Reader) readN(n): io.ReadFull of n bytes from the data chunk's stream;
\* ios counts the Read calls that reach the underlying stream
readN(data, R, n) ==
    LET a == ReadFullLimited(data, R.r.off, R.ls[R.data], n)
    IN  [err |-> a.err, bytes |-> a.bytes,
         R |-> [R EXCEPT !.r.off = a.off, !.ls[R.data] = a.lim],
         ios |-> IF n = 0 \/ R.ls[R.data] = 0 THEN 0
                 ELSE IF a.n = n \/ a.n = 0 \/ a.lim = 0 THEN 1 ELSE 2]

\* the decode and de-interleave loop of readInto, from its k-th assignment on:
\* data[c][j], raw = next(raw) for j over the frames and c over the buffers
RECURSIVE decodeFrom(_, _, _, _, _)
decodeFrom(bufs, raw, name, k, total) ==
    IF k >= total THEN [ok |-> TRUE, bufs |-> bufs, raw |-> raw, stores |-> k]
    ELSE LET c == (k % Len(bufs)) + 1
             j == (k \div Len(bufs)) + 1
             s == nextSample(name, raw)
         IN  IF ~s.ok THEN [ok |-> FALSE, bufs |-> bufs, raw |-> raw, stores |-> k]
             ELSE decodeFrom([bufs EXCEPT ![c][j] = s.val], s.raw, name, k + 1, total)

SampleResult(n, err, bufs, R, ios, stores) ==
    [n |-> n, err |-> err, bufs |-> bufs, R |-> R, ios |-> ios, stores |-> stores]

\* readInto after its check of the buffer count; "panic" is a run-time panic
readSamples(bufs, data, R, name) ==
    IF Len(bufs) = 0 THEN SampleResult(0, "panic", bufs, R, 0, 0)
    ELSE LET nSamples == Len(bufs[1])
             rn == readN(data, R, nSamples * R.fmt.blockAlign)
         IN  IF rn.err # "nil" THEN SampleResult(0, rn.err, bufs, rn.R, rn.ios, 0)
             ELSE LET d == decodeFrom(bufs, rn.bytes, name, 0, nSamples * Len(bufs))
                  IN  IF ~d.ok THEN SampleResult(0, "panic", d.bufs, rn.R, rn.ios, d.stores)
                      ELSE IF Len(d.raw) # 0
                      THEN SampleResult(0, "internal error", d.bufs, rn.R, rn.ios, d.stores)
                      ELSE SampleResult(nSamples, "nil", d.bufs, rn.R, rn.ios, d.stores)

\* readInto as it would be without the check of the buffer count
readIntoUnchecked(bufs, data, R, name) == readSamples(bufs, data, R, name)

\* readInto(data, r, next)
readInto(bufs, data, R, name) ==
    IF Len(bufs) # R.fmt.channels
    THEN SampleResult(0, "wrong number of channels", bufs, R, 0, 0)
    ELSE readSamples(bufs, data, R, name)

\* Read8PCM, Read16PCM, Read32Float, Read64Float
selRead(op, fc) ==
    CASE op = "Read8PCM"    -> selRead8PCM(fc)
      [] op = "Read16PCM"   -> selRead16PCM(fc)
      [] op = "Read32Float" -> selRead32Float(fc)
      [] op = "Read64Float" -> selRead64Float(fc)

ReadSamples(op, bufs, data, R) ==
    LET s == selRead(op, R.fmt)
    IN  IF s.err # "nil" THEN SampleResult(0, s.err, bufs, R, 0, 0)
        ELSE readInto(bufs, data, R, s.next)

---------------------------------------------------------------------------
(* Sample encoding: the wav.Writer.  A Writer is its descriptor fmt, the    *)
(* riff.Writer's count of bytes written, and dc, the data chunk's writer:   *)
(* dc.written bytes so far, or dc.nil once Close has dropped it; pc says    *)
(* whether Close has completed.                                             *)

\* newWriter(ws, fc)
newWriter(f, fc) ==
    LET n  == riffNewWriter(f, IdWAVE)
        c1 == writerNewChunk(n.f, n.written, IdFmt)
        w1 == chunkWriterWrite(c1.f, 0, writeFmtChunk(fc))
        cl == chunkWriterClose(w1.f, c1.written, w1.cwritten)
        c2 == writerNewChunk(cl.f, cl.written, IdData)
    IN  [err |-> "nil", f |-> c2.f,
         W |-> [pc |-> "open", fmt |-> fc, written |-> c2.written,
                dc |-> [nil |-> FALSE, written |-> 0]]]

\* NewWriter(ws, ff)
wavNewWriter(f, format) == newWriter(f, chunk(format))

\* (w *Writer) checkChannels(channels)
checkChannels(W, channels) ==
    IF channels = W.fmt.channels THEN "nil" ELSE "wrong number of channels"

\* the appendSample closures of Write8PCM and Write16PCM, by name
appendSample(name, x) ==
    CASE name = "appendByte"  -> << x >>
      [] name = "append8as16" -> AppendUint16(uint16of(int16of((x - 128) * 256)))
      [] name = "append16"    -> AppendUint16(uint16of(x))

selWrite8PCM(fc) ==
    IF Format(fc) = PCM
    THEN IF fc.bitsPerSample <= 8 THEN Chosen("appendByte")
         ELSE IF fc.bitsPerSample <= 16 THEN Chosen("append8as16")
         ELSE NotImplemented("writing 8 bit PCM -> PCM not implemented")
    ELSE NotImplemented("writing 8 bit PCM -> format not implemented")

selWrite16PCM(fc) ==
    IF Format(fc) = PCM
    THEN IF fc.bitsPerSample <= 8 THEN Chosen("nil")
         ELSE IF fc.bitsPerSample <= 16 THEN Chosen("append16")
         ELSE NotImplemented("writing 16 bit PCM -> PCM not implemented")
    ELSE NotImplemented("writing 16 bit PCM -> format not implemented")

\* the loop of writeSamples as it would be with the channel loop outside: all
\* of channel 0, then all of channel 1
RECURSIVE interleavePlanar(_, _, _, _, _)
interleavePlanar(samples, scratch, name, k, total) ==
    IF k >= total THEN scratch
    ELSE LET frames == Len(samples[1])
             c == (k \div frames) + 1
             i == (k % frames) + 1
         IN  interleavePlanar(samples, scratch \o appendSample(name, samples[c][i]),
                              name, k + 1, total)

\* the interleaving loop of writeSamples from its k-th sample on
RECURSIVE interleaveFrom(_, _, _, _, _)
interleaveFrom(samples, scratch, name, k, total) ==
    IF k >= total THEN scratch
    ELSE LET c == (k % Len(samples)) + 1
             i == (k \div Len(samples)) + 1
         IN  interleaveFrom(samples, scratch \o appendSample(name, samples[c][i]),
                            name, k + 1, total)

WriteResult(n, err, f, W, ios) == [n |-> n, err |-> err, f |-> f, W |-> W, ios |-> ios]

\* (w *Writer) Write(p)
wavWrite(f, W, p) ==
    IF W.dc.nil THEN WriteResult(0, "Write called after Close", f, W, 0)
    ELSE LET r == chunkWriterWrite(f, W.dc.written, p)
         IN  WriteResult(Len(p), r.err, r.f, [W EXCEPT !.dc.written = r.cwritten], r.ios)

\* writeSamples(w, scratch, samples, appendSample)
writeSamples(f, W, samples, name) ==
    IF Len(samples) = 0 THEN WriteResult(0, "panic", f, W, 0)
    ELSE IF name = "nil" /\ Len(samples[1]) > 0 THEN WriteResult(0, "panic", f, W, 0)
    ELSE wavWrite(f, W, interleaveFrom(samples, << >>, name, 0,
                                       Len(samples[1]) * Len(samples)))

\* Write8PCM and Write16PCM
WriteSamples(op, f, W, samples) ==
    LET e == checkChannels(W, Len(samples))
        s == IF op = "Write8PCM" THEN selWrite8PCM(W.fmt) ELSE selWrite16PCM(W.fmt)
    IN  IF e # "nil" THEN WriteResult(0, e, f, W, 0)
        ELSE IF s.err # "nil" THEN WriteResult(0, s.err, f, W, 0)
        ELSE writeSamples(f, W, samples, s.next)

\* (w *Writer) Close(): dc.Close(), dc = nil, then the riff.Writer's Close; a
\* second Close calls a method of the nil dc
wavClose(f, W) ==
    IF W.dc.nil THEN WriteResult(0, "panic", f, W, 0)
    ELSE LET c == chunkWriterClose(f, W.written, W.dc.written)
         IN  IF c.err # "nil" THEN WriteResult(0, c.err, c.f, W, c.ios)
             ELSE LET t == writerClose(c.f, c.written)
                  IN  WriteResult(0, t.err, t.f,
                                  [W EXCEPT !.pc = "closed", !.written = t.written,
                                            !.dc.nil = TRUE],
                                  c.ios + t.ios)

---------------------------------------------------------------------------
(* SpecSamples: a caller decodes from a wav.Reader that NewReader returned, *)
(* or encodes into a wav.Writer that NewWriter returned, passing any number *)
(* of per-channel buffers of any small length.  After a panic nothing more  *)
(* is called.                                                               *)

MaxFrames == 2
MaxOps    == 2
MaxData   == 16

BytesPer(bits) == Max(8, bits) \div 8

SampleFmts ==
    { [ZeroFmt EXCEPT !.format = PCM, !.channels = ch, !.sampleRate = 8000,
                      !.dataRate = 8000 * ch * BytesPer(bits),
                      !.blockAlign = ch * BytesPer(bits), !.bitsPerSample = bits] :
        ch \in 0..2, bits \in {8, 16, 24} }
    \cup
    { [ZeroFmt EXCEPT !.format = PCM, !.channels = ch, !.sampleRate = 8000,
                      !.dataRate = 16000 * ch, !.blockAlign = 6 - 2 * ch,
                      !.bitsPerSample = 16] : ch \in 1..2 }
    \cup
    { [ZeroFmt EXCEPT !.format = Extensible, !.channels = ch, !.sampleRate = 8000,
                      !.dataRate = 8000 * ch * BytesPer(bits),
                      !.blockAlign = ch * BytesPer(bits), !.bitsPerSample = bits,
                      !.validBitsPerSample = bits, !.subFormat = IEEEFloat] :
        ch \in 1..2, bits \in {32, 64} }
    \cup
    { [ZeroFmt EXCEPT !.format = Extensible, !.channels = 1, !.sampleRate = 8000,
                      !.dataRate = 16000, !.blockAlign = 2, !.bitsPerSample = 16,
                      !.validBitsPerSample = 16, !.subFormat = PCM],
      [ZeroFmt EXCEPT !.format = PCM, !.channels = 1, !.sampleRate = 8000,
                      !.dataRate = 16000, !.blockAlign = 2, !.bitsPerSample = 12],
      [ZeroFmt EXCEPT !.format = ALaw, !.channels = 1, !.sampleRate = 8000,
                      !.dataRate = 8000, !.blockAlign = 1, !.bitsPerSample = 8],
      [ZeroFmt EXCEPT !.format = MuLaw, !.channels = 1, !.sampleRate = 8000,
                      !.dataRate = 8000, !.blockAlign = 1, !.bitsPerSample = 8] }

WriterFormats ==
    [Format : {PCM, IEEEFloat, ALaw}, BitDepth : {8, 16, 24}, Channels : 0..2,
     SampleRate : {8000}]

DataByte(j) == (j * 37 + 91) % 256
DataOf(n)   == [j \in 1..n |-> DataByte(j)]

\* the samples a caller passes to Write8PCM and Write16PCM
In8(c, i)  == (c * 100 + i * 29) % 256
In16(c, i) == int16of(c * 20000 + i * 9001)

SamplesIdle ==
    /\ rpc = "wav" /\ rd = NewRiffReader(<< >>, 0, FALSE) /\ lims = << >>
    /\ calls = << >> /\ delivered = << >>
    /\ cws = << >> /\ wlog = << >>
    /\ wr = [written |-> 0, closed |-> FALSE, proper |-> TRUE]
    /\ wlast = [op |-> "none", err |-> "nil", ios |-> 0, arg |-> 0,
                before |-> 0, outOfOrder |-> FALSE]
    /\ sbufs = << >> /\ slast = NoSampleOp
    /\ FmtOff /\ ConvOff /\ TwinOff

InitSamplesReader ==
    /\ \E fc \in SampleFmts, n \in {0, 5, MaxData}, more \in BOOLEAN, back \in {0, 3} :
         LET cs   == << [id |-> IdFmt, data |-> writeFmtChunk(fc)],
                        [id |-> IdData, data |-> DataOf(n)] >>
                       \o IF more THEN << [id |-> IdLIST, data |-> PayloadOf(3, 2)] >>
                          ELSE << >>
             full == Container(IdWAVE, cs)
             cut  == IF more THEN Len(full) ELSE Len(full) - Min(back, n)
         IN  /\ stream = Take(full, cut)
             /\ layout = [form |-> IdWAVE, chunks |-> cs, cut |-> cut, full |-> Len(full)]
    /\ wavr = wavNewReader(stream)
    /\ wavr.pc = "ready"
    /\ wavw = [pc |-> "off"] /\ sent = << >>
    /\ ws = << >> /\ wpos = 0

InitSamplesWriter ==
    /\ \E format \in WriterFormats :
         LET n == wavNewWriter([bytes |-> << >>, pos |-> 0], format)
         IN  /\ n.err = "nil"
             /\ ws = n.f.bytes /\ wpos = n.f.pos
             /\ wavw = n.W
             /\ sent = [c \in 1..n.W.fmt.channels |-> << >>]
    /\ wavr = [pc |-> "off"]
    /\ stream = << >>
    /\ layout = [chunks |-> << >>, cut |-> 0, full |-> 0]

InitSamples == SamplesIdle /\ (InitSamplesReader \/ InitSamplesWriter)

MayCall == slast.k < MaxOps /\ slast.err # "panic"

\* the numbers of buffers a caller passes: none, the declared count, one less,
\* one more
BufCounts(declared) == {0, declared - 1, declared, declared + 1} \cap Nat

notDecode == <<stream, layout, rpc, rd, lims, calls, delivered, wavw, sent, writeVars,
              fmtVars, convVars, twinVars>>
notEncode == <<cws, wlog, wr, wlast, wavr, sbufs, readVars, fmtVars, convVars, twinVars>>

\* n, err := r.ReadXX(bufs) with nbuf buffers of the same length
DoDecode(op) ==
    /\ wavr.pc = "ready"
    /\ MayCall
    /\ \E nbuf \in BufCounts(wavr.fmt.channels), frames \in 0..MaxFrames :
         LET bufs == [c \in 1..nbuf |-> [j \in 1..frames |-> Old(c, j)]]
             r    == ReadSamples(op, bufs, stream, wavr)
         IN  /\ wavr' = r.R
             /\ sbufs' = r.bufs
             /\ slast' = [op |-> op, k |-> slast.k + 1, declared |-> wavr.fmt.channels,
                          nbuf |-> nbuf, frames |-> frames, n |-> r.n, err |-> r.err,
                          ios |-> r.ios, stores |-> r.stores,
                          moved |-> r.R # wavr \/ r.bufs # bufs,
                          at |-> wavr.r.off, left |-> wavr.ls[wavr.data]]
    /\ UNCHANGED notDecode

DoRead8PCM    == DoDecode("Read8PCM")
DoRead16PCM   == DoDecode("Read16PCM")
DoRead32Float == DoDecode("Read32Float")
DoRead64Float == DoDecode("Read64Float")

\* the number of frames written so far
FramesSent == IF Len(sent) = 0 THEN 0 ELSE Len(sent[1])

\* n, err := w.WriteXX(samples) with nbuf buffers of the same length
DoEncode(op) ==
    /\ wavw.pc \in {"open", "closed"}
    /\ MayCall
    /\ \E nbuf \in BufCounts(wavw.fmt.channels), frames \in 0..MaxFrames :
         LET samples == [c \in 1..nbuf |-> [i \in 1..frames |->
                            IF op = "Write8PCM" THEN In8(c, FramesSent + i)
                            ELSE In16(c, FramesSent + i)]]
             r == WriteSamples(op, [bytes |-> ws, pos |-> wpos], wavw, samples)
         IN  /\ ws' = r.f.bytes /\ wpos' = r.f.pos
             /\ wavw' = r.W
             /\ slast' = [op |-> op, k |-> slast.k + 1, declared |-> wavw.fmt.channels,
                          nbuf |-> nbuf, frames |-> frames, n |-> r.n, err |-> r.err,
                          ios |-> r.ios, stores |-> 0,
                          moved |-> r.f # [bytes |-> ws, pos |-> wpos] \/ r.W # wavw,
                          at |-> wpos, left |-> 0]
             /\ sent' = IF r.err # "nil" THEN sent
                        ELSE [c \in 1..nbuf |->
                                sent[c] \o [i \in 1..frames |->
                                   Sample(IF op = "Write8PCM" THEN "byte" ELSE "int16",
                                          "caller", << samples[c][i] >>)]]
    /\ UNCHANGED notEncode

DoWrite8PCM  == DoEncode("Write8PCM")
DoWrite16PCM == DoEncode("Write16PCM")

\* err := w.Close(); an open Writer can always be closed
DoWavClose ==
    /\ wavw.pc \in {"open", "closed"}
    /\ slast.err # "panic"
    /\ wavw.pc = "open" \/ slast.k < MaxOps
    /\ LET r == wavClose([bytes |-> ws, pos |-> wpos], wavw)
       IN  /\ ws' = r.f.bytes /\ wpos' = r.f.pos
           /\ wavw' = r.W
           /\ slast' = [op |-> "Close", k |-> slast.k + 1, declared |-> wavw.fmt.channels,
                        nbuf |-> 0, frames |-> 0, n |-> 0, err |-> r.err, ios |-> r.ios,
                        stores |-> 0, moved |-> TRUE, at |-> wpos, left |-> 0]
    /\ UNCHANGED <<sent, notEncode>>

NextSamples ==
    \/ DoRead8PCM \/ DoRead16PCM \/ DoRead32Float \/ DoRead64Float
    \/ DoWrite8PCM \/ DoWrite16PCM \/ DoWavClose

SpecSamples == InitSamples /\ [][NextSamples]_vars

SampleOps == {"Read8PCM", "Read16PCM", "Read32Float", "Read64Float",
              "Write8PCM", "Write16PCM"}

\* C10: a decode or encode call whose number of buffers differs from the
\* declared channel count returns an error (no panic, no samples), makes no
\* Read, Write or Seek call on the underlying stream, leaves the stream and the
\* Reader or Writer as they were and stores nothing in the caller's buffers.
C10_MismatchRejectedBeforeIO ==
    (slast.op \in SampleOps /\ slast.nbuf # slast.declared) =>
      /\ slast.err \notin {"nil", "panic"}
      /\ slast.n = 0
      /\ slast.ios = 0
      /\ slast.stores = 0
      /\ ~slast.moved

\* a 16-bit decode with one buffer on a two-channel source that has data left
C10_Witness ==
    /\ slast.op = "Read16PCM"
    /\ slast.declared = 2 /\ slast.nbuf = 1 /\ slast.frames >= 1
    /\ wavr.fmt.bitsPerSample = 16
    /\ wavr.ls[wavr.data] >= 4
    /\ slast.err = "wrong number of channels"

---------------------------------------------------------------------------
(* Claims about the sample operations, checked under SpecSamples.          *)

\* the descriptor of the Reader or Writer the caller holds
CalledFmt == IF wavr.pc = "ready" THEN wavr.fmt ELSE wavw.fmt

\* the block alignment is the sample width times the channel count
AlignedFmt(fc) == fc.blockAlign = fc.channels * BytesPer(fc.bitsPerSample)

\* the last call was a decode or encode call with one buffer per declared
\* channel (at least one) and at least one frame
MatchingCall ==
    /\ slast.op \in SampleOps
    /\ slast.declared >= 1 /\ slast.nbuf = slast.declared
    /\ slast.frames >= 1

\* C11: on every descriptor a Reader or Writer can be constructed with, a decode
\* or encode call with matching buffers of at least one frame converts or
\* returns an error; it never ends in a run-time panic.
C11_NoAbortingFault ==
    (MatchingCall /\ AlignedFmt(CalledFmt)) => slast.err # "panic"

\* the bytes of the data chunk as the container was laid out
DataRegion == layout.chunks[2].data

\* how far into the data region the Reader was before the last call, and the
\* bytes the last call asked for
PosBefore == wavr.dataBytes - slast.left
Needed    == slast.frames * wavr.fmt.blockAlign

\* the bytes asked for were there: inside the data chunk and inside the stream
FramesAvailable == Needed <= slast.left /\ slast.at + Needed <= Len(stream)

\* the little-endian two's-complement 16-bit value at offset at of b
Int16At(b, at) ==
    LET u == b[at + 1] + 256 * b[at + 2]
    IN  IF u >= 32768 THEN u - 65536 ELSE u

\* C12: on a PCM source of 9..16 bits whose block alignment is 2 x channels,
\* Read16PCM with one N-frame buffer per channel, N frames being available,
\* returns N, consumes exactly N x blockAlign bytes of the data region from
\* where the previous call stopped, and data[c][j] is the 16-bit value at byte
\* offset 2 x (j x channels + c) of those bytes.
C12_Read16PCMDeinterleaves ==
    (/\ wavr.pc = "ready" /\ slast.op = "Read16PCM"
     /\ Format(wavr.fmt) = PCM /\ wavr.fmt.bitsPerSample \in 9..16
     /\ wavr.fmt.channels >= 1 /\ wavr.fmt.blockAlign = 2 * wavr.fmt.channels
     /\ slast.nbuf = wavr.fmt.channels
     /\ FramesAvailable)
    => /\ slast.err = "nil"
       /\ slast.n = slast.frames
       /\ wavr.ls[wavr.data] = slast.left - Needed
       /\ wavr.r.off = slast.at + Needed
       /\ \A c \in 1..slast.nbuf : \A j \in 1..slast.frames :
            sbufs[c][j] = Sample("int16", "pcm16",
                                 << Int16At(DataRegion,
                                            PosBefore + 2 * ((j - 1) * slast.nbuf + (c - 1))) >>)

\* a second Read16PCM call on a stereo source, after a first call that consumed
\* a frame, returns a frame with a negative sample
C12_Witness ==
    /\ wavr.pc = "ready" /\ slast.op = "Read16PCM" /\ slast.k = 2
    /\ wavr.fmt.bitsPerSample = 16 /\ wavr.fmt.channels = 2 /\ wavr.fmt.blockAlign = 4
    /\ slast.nbuf = 2 /\ slast.frames >= 1 /\ slast.n = slast.frames
    /\ PosBefore >= 4
    /\ \E c \in 1..2 : sbufs[c][1].v[1] < 0

\* the sample width in bytes of an IEEE-float source of 32 or 64 bits
FloatWidth == wavr.fmt.bitsPerSample \div 8

\* C13: on an IEEE-float source of 32 bits with block alignment 4 x channels, or
\* of 64 bits with block alignment 8 x channels, Read32Float and Read64Float with
\* one N-frame buffer per channel (N >= 1 frames available) return N, and
\* data[c][j] is the float made of the bytes of sample j x channels + c of the
\* bytes read: copied when the width is the same, cast otherwise.
C13_FloatDecode ==
    (/\ wavr.pc = "ready" /\ slast.op \in {"Read32Float", "Read64Float"}
     /\ Format(wavr.fmt) = IEEEFloat /\ wavr.fmt.bitsPerSample \in {32, 64}
     /\ wavr.fmt.channels >= 1 /\ wavr.fmt.blockAlign = FloatWidth * wavr.fmt.channels
     /\ slast.nbuf = wavr.fmt.channels /\ slast.frames >= 1
     /\ FramesAvailable)
    => /\ slast.err = "nil"
       /\ slast.n = slast.frames
       /\ \A c \in 1..slast.nbuf : \A j \in 1..slast.frames :
            LET at == PosBefore + FloatWidth * ((j - 1) * slast.nbuf + (c - 1))
            IN  sbufs[c][j] =
                  Sample(IF slast.op = "Read32Float" THEN "float32" ELSE "float64",
                         IF FloatWidth = 4 THEN "float32bits" ELSE "float64bits",
                         SubSeq(DataRegion, at + 1, at + FloatWidth))

DecodeOps == {"Read8PCM", "Read16PCM", "Read32Float", "Read64Float"}

\* C14: when fewer than N x blockAlign bytes remain in the data region, a decode
\* call with N-frame buffers returns an error and frame count 0, and every
\* destination buffer holds what it held before the call.
C14_ShortDataRejected ==
    (/\ wavr.pc = "ready" /\ slast.op \in DecodeOps
     /\ slast.nbuf >= 1
     /\ ~FramesAvailable)
    => /\ slast.err \notin {"nil", "panic"}
       /\ slast.n = 0
       /\ slast.stores = 0
       /\ \A c \in 1..slast.nbuf : \A j \in 1..slast.frames : sbufs[c][j] = Old(c, j)

\* Read16PCM asks a stereo 16-bit source for two frames when between one and
\* seven bytes are left
C14_Witness ==
    /\ wavr.pc = "ready" /\ slast.op = "Read16PCM"
    /\ wavr.fmt.channels = 2 /\ wavr.fmt.bitsPerSample = 16 /\ wavr.fmt.blockAlign = 4
    /\ slast.nbuf = 2 /\ slast.frames = 2
    /\ slast.left \in 1..7
    /\ slast.err = "ErrUnexpectedEOF"

\* a Writer for 16-bit PCM with at least one channel has been closed, and every
\* encode call that succeeded before was a Write16PCM
Closed16PCM ==
    /\ wavw.pc = "closed"
    /\ wavw.fmt.format = PCM /\ wavw.fmt.bitsPerSample = 16 /\ wavw.fmt.channels >= 1
    /\ \A c \in 1..Len(sent) : \A j \in 1..Len(sent[c]) : sent[c][j].type = "int16"

\* offset of the data chunk's header in a file that starts with the 12-byte
\* container header and a 16-byte descriptor chunk
DataHeaderAt == 12 + (8 + 16)

\* NewReader on the written file, then one Read16PCM for all frames
ReadBack16(file, channels, frames) ==
    LET R == wavNewReader(file)
    IN  IF R.pc # "ready" THEN [err |-> R.err, n |-> 0, bufs |-> << >>]
        ELSE LET r == ReadSamples("Read16PCM",
                                  [c \in 1..channels |-> [j \in 1..frames |-> Old(c, j)]],
                                  file, R)
             IN  [err |-> r.err, n |-> r.n, bufs |-> r.bufs]

\* C15: after any sequence of Write16PCM calls and Close on a 16-bit PCM Writer
\* with c >= 1 channels, the data chunk holds frame after frame the samples of
\* channel 0 .. c-1 as little-endian 16-bit values, its size field is the number
\* of bytes written, and NewReader plus Read16PCM gives back, per channel, the
\* concatenation of the buffers written for it.
C15_InterleaveRoundTrip ==
    Closed16PCM =>
      LET C == wavw.fmt.channels
          F == FramesSent
          back == ReadBack16(ws, C, F)
      IN  /\ SubSeq(ws, DataHeaderAt + 1, DataHeaderAt + 4) = IdData
          /\ U32At(ws, DataHeaderAt + 4) = 2 * C * F
          /\ Len(ws) = DataHeaderAt + 8 + 2 * C * F
          /\ \A c \in 1..C : \A j \in 1..F :
               Int16At(ws, DataHeaderAt + 8 + 2 * ((j - 1) * C + (c - 1))) = sent[c][j].v[1]
          /\ back.err = "nil" /\ back.n = F
          /\ \A c \in 1..C : \A j \in 1..F :
               back.bufs[c][j] = Sample("int16", "pcm16", sent[c][j].v)

\* two Write16PCM calls of two frames and one frame on a stereo Writer, then
\* Close; a negative sample was written
C15_Witness ==
    /\ Closed16PCM /\ slast.op = "Close" /\ slast.err = "nil" /\ slast.k = 3
    /\ wavw.fmt.channels = 2 /\ FramesSent = 3
    /\ \E c \in 1..2, j \in 1..3 : sent[c][j].v[1] < 0

---------------------------------------------------------------------------
(* SpecRoundTrip: TestRoundTrip16PCMTo16PCM on small files.  A 16-bit PCM   *)
(* file of a 16-byte descriptor chunk and a data chunk is opened, all its   *)
(* frames are decoded with Read16PCM, a Writer is made for the Reader's     *)
(* format, the buffers are written with Write16PCM and the Writer is        *)
(* closed.  rpc is the step reached; any error ends the run ("rt.failed").  *)

MaxRtData == 9

RtFmts ==
    { [ZeroFmt EXCEPT !.format = PCM, !.channels = ch, !.sampleRate = rate,
                      !.dataRate = IF goodRate THEN rate * 2 * ch ELSE rate,
                      !.blockAlign = align, !.bitsPerSample = 16] :
        ch \in 0..2, rate \in {8000, 44100}, goodRate \in BOOLEAN, align \in {2, 4} }

InitRoundTrip ==
    /\ \E fc \in RtFmts, n \in 0..MaxRtData :
         LET cs == << [id |-> IdFmt, data |-> writeFmtChunk(fc)],
                      [id |-> IdData, data |-> DataOf(n)] >>
         IN  /\ stream = Container(IdWAVE, cs)
             /\ layout = [form |-> IdWAVE, chunks |-> cs, cut |-> Len(stream),
                          full |-> Len(stream)]
    /\ rpc = "rt.start"
    /\ rd = NewRiffReader(<< >>, 0, FALSE) /\ lims = << >> /\ calls = << >> /\ delivered = << >>
    /\ wavr = NoReader /\ wavw = [pc |-> "off"]
    /\ sbufs = << >> /\ sent = << >> /\ slast = NoSampleOp
    /\ WriteOff /\ FmtOff /\ ConvOff /\ TwinOff

notRtRead  == <<stream, layout, rd, lims, calls, delivered, wavw, sent, writeVars, fmtVars,
               convVars, twinVars>>
notRtWrite == <<stream, layout, rd, lims, calls, delivered, wavr, sbufs,
                cws, wlog, wr, wlast, fmtVars, convVars, twinVars>>

\* r, err := NewReader(bytes.NewReader(raw))
RtOpen ==
    /\ rpc = "rt.start"
    /\ wavr' = wavNewReader(stream)
    /\ rpc' = IF wavr'.pc = "ready" THEN "rt.opened" ELSE "rt.failed"
    /\ UNCHANGED <<sbufs, slast, notRtRead>>

\* (r *Reader) Samples(): dataBytes / blockAlign, a panic when blockAlign is 0
Samples(R) == R.dataBytes \div R.fmt.blockAlign

\* all := r.Channels() buffers of r.Samples() frames; r.Read16PCM(all)
RtDecode ==
    /\ rpc = "rt.opened"
    /\ IF wavr.fmt.blockAlign = 0
       THEN /\ rpc' = "rt.failed"
            /\ slast' = [NoSampleOp EXCEPT !.op = "Samples", !.err = "panic"]
            /\ UNCHANGED <<wavr, sbufs>>
       ELSE LET bufs == [c \in 1..wavr.fmt.channels |->
                           [j \in 1..Samples(wavr) |-> Old(c, j)]]
                r    == ReadSamples("Read16PCM", bufs, stream, wavr)
            IN  /\ wavr' = r.R
                /\ sbufs' = r.bufs
                /\ slast' = [op |-> "Read16PCM", k |-> 1, declared |-> wavr.fmt.channels,
                             nbuf |-> Len(bufs), frames |-> Samples(wavr), n |-> r.n,
                             err |-> r.err, ios |-> r.ios, stores |-> r.stores,
                             moved |-> r.R # wavr \/ r.bufs # bufs,
                             at |-> wavr.r.off, left |-> wavr.ls[wavr.data]]
                /\ rpc' = IF r.err = "nil" THEN "rt.decoded" ELSE "rt.failed"
    /\ UNCHANGED notRtRead

\* w, err := NewWriter(f, FileFormat{...}) with the Reader's format, bit depth,
\* channel count and sample rate
RtNewWriter ==
    /\ rpc = "rt.decoded"
    /\ LET n == wavNewWriter([bytes |-> << >>, pos |-> 0],
                             [Format |-> Format(wavr.fmt),
                              BitDepth |-> wavr.fmt.bitsPerSample,
                              Channels |-> wavr.fmt.channels,
                              SampleRate |-> wavr.fmt.sampleRate])
       IN  /\ ws' = n.f.bytes /\ wpos' = n.f.pos
           /\ wavw' = n.W
           /\ sent' = [c \in 1..n.W.fmt.channels |-> << >>]
           /\ rpc' = IF n.err = "nil" THEN "rt.writer" ELSE "rt.failed"
    /\ UNCHANGED <<slast, notRtWrite>>

\* w.Write16PCM(all)
RtEncode ==
    /\ rpc = "rt.writer"
    /\ LET samples == [c \in 1..Len(sbufs) |-> [i \in 1..Len(sbufs[c]) |-> sbufs[c][i].v[1]]]
           r == WriteSamples("Write16PCM", [bytes |-> ws, pos |-> wpos], wavw, samples)
       IN  /\ ws' = r.f.bytes /\ wpos' = r.f.pos
           /\ wavw' = r.W
           /\ sent' = IF r.err = "nil" THEN sbufs ELSE sent
           /\ slast' = [op |-> "Write16PCM", k |-> 2, declared |-> wavw.fmt.channels,
                        nbuf |-> Len(samples), frames |-> Len(samples[1]), n |-> r.n,
                        err |-> r.err, ios |-> r.ios, stores |-> 0, moved |-> TRUE,
                        at |-> wpos, left |-> 0]
           /\ rpc' = IF r.err = "nil" THEN "rt.encoded" ELSE "rt.failed"
    /\ UNCHANGED notRtWrite

\* w.Close()
RtClose ==
    /\ rpc = "rt.encoded"
    /\ LET r == wavClose([bytes |-> ws, pos |-> wpos], wavw)
       IN  /\ ws' = r.f.bytes /\ wpos' = r.f.pos
           /\ wavw' = r.W
           /\ slast' = [op |-> "Close", k |-> 3, declared |-> wavw.fmt.channels,
                        nbuf |-> 0, frames |-> 0, n |-> 0, err |-> r.err, ios |-> r.ios,
                        stores |-> 0, moved |-> TRUE, at |-> wpos, left |-> 0]
           /\ rpc' = IF r.err = "nil" THEN "rt.closed" ELSE "rt.failed"
    /\ UNCHANGED <<sent, notRtWrite>>

NextRoundTrip == RtOpen \/ RtDecode \/ RtNewWriter \/ RtEncode \/ RtClose

SpecRoundTrip == InitRoundTrip /\ [][NextRoundTrip]_vars

\* the round trip has ended, with the Writer closed or with an error
RtEnded == rpc \in {"rt.closed", "rt.failed"}

\* the raw bytes of the data chunk of a file, as diff reads them with
\* io.ReadAll(r.data)
DataBytesOf(file) ==
    LET R == wavNewReader(file)
    IN  IF R.pc # "ready" THEN << -1 >>
        ELSE ioReadAll(file, R.r.off, R.ls[R.data], << >>).bytes

\* what diff compares: the 8-byte RIFF header, the form tag, the descriptor
\* NewReader parses and the raw data bytes
SameFile(got, want) ==
    /\ Take(got, 8) = Take(want, 8)
    /\ SubSeq(got, 9, 12) = SubSeq(want, 9, 12) /\ SubSeq(got, 9, 12) = IdWAVE
    /\ wavNewReader(got).pc = "ready" /\ wavNewReader(want).pc = "ready"
    /\ wavNewReader(got).fmt = wavNewReader(want).fmt
    /\ DataBytesOf(got) = DataBytesOf(want)

\* the original's descriptor and data agree with each other: at least one
\* channel, block alignment 2 x channels, data rate = sample rate x block
\* alignment, and the data chunk is a whole number of frames
RtOriginal == layout.chunks[1].data
WholeFrames16 ==
    /\ U16At(RtOriginal, 2) >= 1
    /\ U16At(RtOriginal, 12) = 2 * U16At(RtOriginal, 2)
    /\ U32At(RtOriginal, 8) = U32At(RtOriginal, 4) * U16At(RtOriginal, 12)
    /\ Len(layout.chunks[2].data) % U16At(RtOriginal, 12) = 0

\* C16 as stated: for every 16-bit PCM file of a 16-byte descriptor chunk and a
\* data chunk, decoding all frames with Read16PCM and writing them with
\* Write16PCM to a Writer of the same format, bit depth, channel count and sample
\* rate, then closing it, gives a file equal to the original in the RIFF header,
\* the form tag, every descriptor field and the raw data bytes.
C16_FullRoundTripAnyFile ==
    RtEnded => (rpc = "rt.closed" /\ SameFile(ws, stream))

\* C16, amended: the same for files whose descriptor has at least one channel,
\* block alignment 2 x channels and data rate = sample rate x block alignment,
\* and whose data chunk is a whole number of frames.
C16_FullRoundTrip ==
    (RtEnded /\ WholeFrames16) => (rpc = "rt.closed" /\ SameFile(ws, stream))

\* a stereo file of two frames went through the round trip
C16_Witness ==
    /\ rpc = "rt.closed" /\ WholeFrames16
    /\ U16At(RtOriginal, 2) = 2 /\ Len(layout.chunks[2].data) = 8
    /\ FramesSent = 2

\* ======================================================================
\* Sample conversions: one sample of one format to another
\* ======================================================================

Bytes  == 0 .. 255                     \* the values of a Go byte
Int16s == (0 - 32768) .. 32767         \* the values of a Go int16

\* The range of a signed type of the given width; int32 is the widest type used.
SignedRange(w) ==
    IF w = 16 THEN Int16s ELSE (0 - 2147483647 - 1) .. 2147483647

\* x << k and x >> k on signed integers: the shift right is arithmetic
\* (floor), the shift left multiplies before the result is cut to the width.
shl(x, k) == x * 2 ^ k
shr(x, k) == x \div 2 ^ k

\* One value a conversion computes, with the width of the Go type holding it.
Step(w, v) == [w |-> w, v |-> v]

from16PCMTo8PCMNoOffset(i) == byteof(shr(i, 8))

\* func from8PCMTo16PCM(b byte) int16 { return (int16(b) - 128) << 8 }
from8PCMTo16PCM(b) == int16of(shl(int16of(b - 128), 8))
\* func from8PCMTo24PCM(b byte) int32 { return (int32(b) - 128) << 16 }
from8PCMTo24PCM(b) == shl(b - 128, 16)
\* func from16PCMTo8PCM(i int16) byte { return byte((i >> 8) + 128) }
from16PCMTo8PCM(i) == byteof(int16of(shr(i, 8) + 128))
\* func from16PCMTo24PCM(i int16) int32 { return int32(i) << 8 }
from16PCMTo24PCM(i) == shl(i, 8)
\* func from24PCMTo8PCM(i int32) byte { return byte((i >> 16) + 128) }
from24PCMTo8PCM(i) == byteof(shr(i, 16) + 128)
\* func from24PCMTo16PCM(i int32) int16 { return int16(i >> 8) }
from24PCMTo16PCM(i) == int16of(shr(i, 8))

\* The values each conversion computes on the way, before any is cut to the
\* width of its type.
stepsTo16(b)     == << Step(16, b - 128), Step(16, shl(b - 128, 8)) >>
stepsTo24(b)     == << Step(32, b - 128), Step(32, shl(b - 128, 16)) >>
steps16To8(i)    == << Step(16, shr(i, 8)), Step(16, shr(i, 8) + 128) >>
steps16To24(i)   == << Step(32, i), Step(32, shl(i, 8)) >>
steps24To8(i)    == << Step(32, shr(i, 16)), Step(32, shr(i, 16) + 128) >>
steps24To16(i)   == << Step(32, shr(i, 8)), Step(16, shr(i, 8)) >>

\* ---- binary floating point ----
\* A float is s * m * 2^e with s the sign, m a natural number that is odd or
\* zero, and e an integer. A float32 has at most 24 significant bits and a
\* float64 at most 53; every operation computes the exact result and rounds it
\* to the nearest value of that precision, ties to even. The exponents of the
\* values below stay far inside both formats' ranges.
Float(s, m, e) == [s |-> s, m |-> m, e |-> e]
FZero == Float(1, 0, 0)

RECURSIVE bitLen(_)
bitLen(m) == IF m = 0 THEN 0 ELSE 1 + bitLen(m \div 2)

RECURSIVE fNorm(_, _, _)
fNorm(s, m, e) ==
    IF m = 0 THEN FZero
    ELSE IF m % 2 = 0 THEN fNorm(s, m \div 2, e + 1)
    ELSE Float(s, m, e)

\* Round m * 2^e, with r / d (0 <= r < d) the part of m below its last bit, to
\* p significant bits. The bits of m beyond p and r decide the direction.
fRound(p, s, m, r, d, e) ==
    LET k    == IF bitLen(m) > p THEN bitLen(m) - p ELSE 0
        kept == m \div 2 ^ k
        rest == m % 2 ^ k
        \* compare the dropped part with one half of the last kept bit
        cmp  == IF k = 0
                THEN (IF 2 * r > d THEN 1 ELSE IF 2 * r = d THEN 0 ELSE 0 - 1)
                ELSE IF rest > 2 ^ (k - 1) THEN 1
                ELSE IF rest < 2 ^ (k - 1) THEN 0 - 1
                ELSE IF r > 0 THEN 1 ELSE 0
        up   == cmp = 1 \/ (cmp = 0 /\ kept % 2 = 1)
    IN  fNorm(s, IF up THEN kept + 1 ELSE kept, e + k)

\* float32(n), float64(n) of an integer of at most 17 bits: exact.
fFromInt(n) == IF n < 0 THEN fNorm(0 - 1, 0 - n, 0) ELSE fNorm(1, n, 0)

\* x + y rounded to p bits.
fAdd(p, x, y) ==
    LET e   == IF x.e < y.e THEN x.e ELSE y.e
        sum == x.s * x.m * 2 ^ (x.e - e) + y.s * y.m * 2 ^ (y.e - e)
    IN  IF sum < 0 THEN fRound(p, 0 - 1, 0 - sum, 0, 1, e)
        ELSE fRound(p, 1, sum, 0, 1, e)

\* x * y rounded to p bits. The product of the two mantissas is computed in
\* two parts, hi * 2^12 + lo, so that no part outgrows 31 bits (y.m has at
\* most 15 bits in every use); the bits of lo below the p leading bits of the
\* product enter the rounding as a fraction.
fMul(p, x, y) ==
    LET a  == x.m \div 4096
        b  == x.m % 4096
        hi == a * y.m + (b * y.m) \div 4096
        lo == (b * y.m) % 4096
        \* the bits of lo that belong to the p leading bits of the product
        t  == IF hi = 0 THEN 12
              ELSE IF bitLen(hi) >= p THEN 0
              ELSE Min(12, p - bitLen(hi))
    IN  fRound(p, x.s * y.s, hi * 2 ^ t + lo \div 2 ^ (12 - t),
               lo % 2 ^ (12 - t), 2 ^ (12 - t), x.e + y.e + (12 - t))

\* n / d rounded to p bits, by long division: q holds the bits of the
\* quotient found so far, r the remainder, e the weight of q's last bit.
RECURSIVE fDivBits(_, _, _, _, _, _)
fDivBits(p, s, q, r, d, e) ==
    IF r = 0 \/ q >= 2 ^ (p - 1) THEN fRound(p, s, q, r, d, e)
    ELSE IF 2 * r >= d THEN fDivBits(p, s, 2 * q + 1, 2 * r - d, d, e - 1)
    ELSE fDivBits(p, s, 2 * q, 2 * r, d, e - 1)

\* x / y rounded to p bits, for x and y whole numbers (e = 0 after x and y are
\* brought to a common exponent).
fDiv(p, x, y) ==
    LET e == IF x.e < y.e THEN x.e ELSE y.e
        n == x.m * 2 ^ (x.e - e)
        d == y.m * 2 ^ (y.e - e)
    IN  IF x.m = 0 THEN FZero
        ELSE fDivBits(p, x.s * y.s, n \div d, n % d, d, 0)

\* The integer part of x, the fraction discarded (truncation toward zero).
fTrunc(x) ==
    IF x.e >= 0 THEN x.s * x.m * 2 ^ x.e
    ELSE IF 0 - x.e > 30 THEN 0
    ELSE x.s * (x.m \div 2 ^ (0 - x.e))

\* const div = 1.0 / 128, exact in both precisions
div128 == Float(1, 1, 0 - 7)
fOne   == Float(1, 1, 0)
\* const maxInt16 = int16(1<<15 - 1)
maxInt16 == 32767

\* func from8PCMToFloat32(b byte) float32 { return float32(b)*div - 1 }
from8PCMToFloat32(b) == fAdd(24, fMul(24, fFromInt(b), div128), Float(0 - 1, 1, 0))
\* func from8PCMToFloat64(b byte) float64 { return float64(b)*div - 1 }
from8PCMToFloat64(b) == fAdd(53, fMul(53, fFromInt(b), div128), Float(0 - 1, 1, 0))
from16PCMToFloat32By32768(i) == fDiv(24, fFromInt(i), fFromInt(maxInt16 + 1))

\* func from16PCMToFloat32(i int16) float32 { return float32(i) / float32(maxInt16) }
from16PCMToFloat32(i) == fDiv(24, fFromInt(i), fFromInt(maxInt16))

\* The float before its conversion to an integer type.
scaled8(p, f)  == fMul(p, fAdd(p, f, fOne), fFromInt(128))
scaled16(f)    == fMul(24, f, fFromInt(maxInt16))

\* A conversion of a float to an integer type keeps the integer part when it
\* is a value of the type; otherwise the result is whatever the machine
\* yields (the language leaves it to the implementation).
floatToInt(x, type) == IF fTrunc(x) \in type THEN {fTrunc(x)} ELSE type

\* func fromFloat32To8PCM(f float32) byte { return byte((f + 1) * 128) }
fromFloat32To8PCM(f) == floatToInt(scaled8(24, f), Bytes)
\* func fromFloat64To8PCM(f float64) byte { return byte((f + 1) * 128) }
fromFloat64To8PCM(f) == floatToInt(scaled8(53, f), Bytes)
\* func fromFloat32To16PCM(f float32) int16 { return int16(f * float32(maxInt16)) }
fromFloat32To16PCM(f) == floatToInt(scaled16(f), Int16s)

\* ---- the round trips of TestRoundTrip ----
IntKinds   == {"8PCM/16PCM", "8PCM/24PCM", "16PCM/24PCM"}
FloatKinds == {"8PCM/Float32", "8PCM/Float64", "16PCM/Float32"}

\* byteValues, sixteenBitValues
valuesOf(kind) ==
    IF kind \in {"16PCM/24PCM", "16PCM/Float32"} THEN Int16s ELSE Bytes

\* aToB of each test case; an integer result is in i, a float result in f.
aToB(kind, a) ==
    CASE kind = "8PCM/16PCM"    -> [i |-> from8PCMTo16PCM(a), f |-> FZero]
      [] kind = "8PCM/24PCM"    -> [i |-> from8PCMTo24PCM(a), f |-> FZero]
      [] kind = "16PCM/24PCM"   -> [i |-> from16PCMTo24PCM(a), f |-> FZero]
      [] kind = "8PCM/Float32"  -> [i |-> 0, f |-> from8PCMToFloat32(a)]
      [] kind = "8PCM/Float64"  -> [i |-> 0, f |-> from8PCMToFloat64(a)]
      [] kind = "16PCM/Float32" -> [i |-> 0, f |-> from16PCMToFloat32(a)]

\* bToA of each test case: the set of values the conversion can return.
bToA(kind, b) ==
    CASE kind = "8PCM/16PCM"    -> {from16PCMTo8PCM(b.i)}
      [] kind = "8PCM/24PCM"    -> {from24PCMTo8PCM(b.i)}
      [] kind = "16PCM/24PCM"   -> {from24PCMTo16PCM(b.i)}
      [] kind = "8PCM/Float32"  -> fromFloat32To8PCM(b.f)
      [] kind = "8PCM/Float64"  -> fromFloat64To8PCM(b.f)
      [] kind = "16PCM/Float32" -> fromFloat32To16PCM(b.f)

stepsForward(kind, a) ==
    CASE kind = "8PCM/16PCM"  -> stepsTo16(a)
      [] kind = "8PCM/24PCM"  -> stepsTo24(a)
      [] kind = "16PCM/24PCM" -> steps16To24(a)
      [] OTHER                -> << >>

stepsBack(kind, b) ==
    CASE kind = "8PCM/16PCM"  -> steps16To8(b.i)
      [] kind = "8PCM/24PCM"  -> steps24To8(b.i)
      [] kind = "16PCM/24PCM" -> steps24To16(b.i)
      [] OTHER                -> << >>

\* One test case and one of its values.
ConvStart(kinds) ==
    /\ \E kind \in kinds : \E a \in valuesOf(kind) :
           conv = [pc |-> "start", kind |-> kind, a |-> a,
                   b |-> [i |-> 0, f |-> FZero], got |-> 0, steps |-> << >>]
    /\ ReadOff /\ WriteOff /\ FmtOff /\ WavOff /\ TwinOff

InitConvInt   == ConvStart(IntKinds)
InitConvFloat == ConvStart(FloatKinds)

notConv == <<readVars, writeVars, fmtVars, wavVars, twinVars>>

\* b := aToB(a)
ConvForward ==
    /\ conv.pc = "start"
    /\ conv' = [conv EXCEPT !.pc = "converted", !.b = aToB(conv.kind, conv.a),
                            !.steps = stepsForward(conv.kind, conv.a)]
    /\ UNCHANGED notConv

\* got := bToA(b)
ConvBack ==
    /\ conv.pc = "converted"
    /\ \E got \in bToA(conv.kind, conv.b) :
           conv' = [conv EXCEPT !.pc = "done", !.got = got,
                                !.steps = conv.steps \o stepsBack(conv.kind, conv.b)]
    /\ UNCHANGED notConv

NextConv == ConvForward \/ ConvBack
SpecConvInt   == InitConvInt /\ [][NextConv]_vars
SpecConvFloat == InitConvFloat /\ [][NextConv]_vars

\* C17: an integer round trip (8-bit through 16-bit, 8-bit through 24-bit,
\* 16-bit through 24-bit) returns the value it started from, for every value
\* of the type, and every value computed on the way is a value of the signed
\* type that holds it: nothing is lost to overflow.
C17_IntegerRoundTrips ==
    (conv.pc = "done" /\ conv.kind \in IntKinds) =>
        /\ conv.got = conv.a
        /\ \A k \in 1..Len(conv.steps) : conv.steps[k].v \in SignedRange(conv.steps[k].w)

\* The round trip of the lowest 16-bit value through 24 bits has ended.
C17_Witness ==
    /\ conv.pc = "done" /\ conv.kind = "16PCM/24PCM"
    /\ conv.a = 0 - 32768 /\ conv.b.i = 0 - 8388608 /\ Len(conv.steps) = 4

\* C18: a round trip through a float (8-bit through float32 and float64,
\* 16-bit through float32) returns the value it started from, for every value
\* of the type.
C18_FloatRoundTrips ==
    (conv.pc = "done" /\ conv.kind \in FloatKinds) => conv.got = conv.a

\* The round trip of a 16-bit value whose quotient by 32767 had to be rounded
\* has ended.
C18_Witness ==
    /\ conv.pc = "done" /\ conv.kind = "16PCM/Float32"
    /\ conv.a = 12345 /\ conv.b.f = Float(1, 6320833, 0 - 24) /\ conv.got = 12345

\* ======================================================================
\* deinterleave: groups of n successive elements of a sequence
\* ======================================================================

MaxGroup == 3      \* group sizes 0..MaxGroup
MaxLen   == 5      \* input sequences of 0..MaxLen elements
Elems    == 0 .. 2 \* the elements of the input sequences

\* out = make([]T, n)
makeOut(n) == [j \in 1..n |-> 0]

deinterleaveEarly(n, out, i, t) ==
    IF i >= Len(out) THEN [panic |-> TRUE, out |-> out, i |-> i, yield |-> FALSE]
    ELSE [panic |-> FALSE, out |-> [out EXCEPT ![i + 1] = t],
          i |-> IF i + 1 >= n - 1 THEN 0 ELSE i + 1, yield |-> i + 1 >= n - 1]

\* One turn of the loop over the input: out[i] = t; i++; when i >= n the
\* group is yielded and i starts again at 0. out[i] with i outside out is a
\* run-time panic.
deinterleave(n, out, i, t) ==
    IF i >= Len(out) THEN [panic |-> TRUE, out |-> out, i |-> i, yield |-> FALSE]
    ELSE [panic |-> FALSE, out |-> [out EXCEPT ![i + 1] = t],
          i |-> IF i + 1 >= n THEN 0 ELSE i + 1, yield |-> i + 1 >= n]

RECURSIVE SeqsUpTo(_, _)
SeqsUpTo(S, k) ==
    IF k = 0 THEN {<< >>}
    ELSE LET shorter == SeqsUpTo(S, k - 1)
         IN  shorter \cup {Append(s, x) : s \in {q \in shorter : Len(q) = k - 1}, x \in S}

\* for g := range deinterleave(n, slices.Values(in)): the consumer keeps a
\* copy of every group it is handed, as the groups share one buffer.
InitDeinterleave ==
    /\ \E n \in 0..MaxGroup : \E in \in SeqsUpTo(Elems, MaxLen) :
           conv = [pc |-> "range", n |-> n, in |-> in, at |-> 1,
                   out |-> makeOut(n), i |-> 0, got |-> << >>]
    /\ ReadOff /\ WriteOff /\ FmtOff /\ WavOff /\ TwinOff

\* the next element of the input goes through the loop body
DeinterleaveElement ==
    /\ conv.pc = "range" /\ conv.at <= Len(conv.in)
    /\ LET r == deinterleave(conv.n, conv.out, conv.i, conv.in[conv.at])
       IN  conv' = [conv EXCEPT !.pc = IF r.panic THEN "panic" ELSE "range",
                                !.at = conv.at + 1, !.out = r.out, !.i = r.i,
                                !.got = IF r.yield THEN Append(conv.got, r.out)
                                        ELSE conv.got]
    /\ UNCHANGED notConv

\* the input is exhausted: the loop ends, whatever is left in out is not yielded
DeinterleaveEnd ==
    /\ conv.pc = "range" /\ conv.at > Len(conv.in)
    /\ conv' = [conv EXCEPT !.pc = "ended"]
    /\ UNCHANGED notConv

NextDeinterleave == DeinterleaveElement \/ DeinterleaveEnd
SpecDeinterleave == InitDeinterleave /\ [][NextDeinterleave]_vars

\* C19: for a group size n >= 1 and an input of L elements, the groups
\* yielded are exactly floor(L/n), the k-th one holding the k-th run of n
\* successive input elements in their order; the L mod n elements left over
\* are dropped and nothing fails.
C19_DeinterleaveGroups ==
    conv.n >= 1 =>
        /\ conv.pc # "panic"
        /\ conv.pc = "ended" =>
              /\ Len(conv.got) = Len(conv.in) \div conv.n
              /\ \A k \in 1..Len(conv.got) :
                     conv.got[k] = SubSeq(conv.in, (k - 1) * conv.n + 1, k * conv.n)

\* Five elements in groups of two: two groups, the fifth element dropped.
C19_Witness ==
    /\ conv.pc = "ended" /\ conv.n = 2 /\ conv.in = <<0, 1, 2, 1, 2>>
    /\ conv.got = << <<0, 1>>, <<2, 1>> >>

\* ======================================================================
\* Two riff.Readers on containers that differ in the total-size field
\* ======================================================================

\* One Reader with its stream and what its caller has seen of it.
Run(s, pc, r, ls, cs, dl) ==
    [stream |-> s, pc |-> pc, rd |-> r, lims |-> ls, calls |-> cs, delivered |-> dl]

\* The first Reader is the one of the read variables.
First == Run(stream, rpc, rd, lims, calls, delivered)

\* r, err := riff.NewReader(stream)
runOpen(x) ==
    LET n == riffNewReader(x.stream)
    IN  [x EXCEPT !.pc = IF n.err = "nil" THEN "open" ELSE "failed",
                  !.rd = NewRiffReader(n.Form, n.off, n.pad)]

\* c, err := r.ReadChunk()
runReadChunk(x) ==
    LET c == ReadChunk(x.stream, x.rd, x.lims)
    IN  [x EXCEPT
           !.rd = c.r,
           !.lims = c.ls,
           !.calls = Append(x.calls,
               [err |-> c.err,
                at  |-> c.r.off,
                Identifier |-> IF c.err = "nil" THEN c.r.chunk.Identifier ELSE << >>,
                Size |-> IF c.err = "nil" THEN c.r.chunk.Size ELSE 0,
                Reader |-> IF c.err = "nil" THEN c.r.chunk.Reader ELSE 0]),
           !.delivered = IF c.err = "nil"
                         THEN Append(x.delivered, [bytes |-> << >>, eof |-> FALSE])
                         ELSE x.delivered]

\* n, err := c.Reader.Read(p) on the i-th content stream, len(p) = want
runReadContent(x, i, want) ==
    LET r == LimitedRead(x.stream, x.rd.off, x.lims[i], want)
    IN  [x EXCEPT
           !.rd = [x.rd EXCEPT !.off = r.off],
           !.lims = [x.lims EXCEPT ![i] = r.lim],
           !.delivered = [x.delivered EXCEPT
               ![i] = [bytes |-> @.bytes \o r.bytes, eof |-> r.err = "EOF"]]]

\* The container with other bytes in its total-size field (bytes 5..8).
WithSize(data, field) ==
    [j \in 1..Len(data) |-> IF j \in 5..8 THEN field[j - 4] ELSE data[j]]

\* Total-size fields to set against the true one, which is even and the
\* length of what follows it: zero (even, too small) and the largest positive
\* value (odd, too large).
SizeFields == { << 0, 0, 0, 0 >>, << 255, 255, 255, 127 >> }

\* The layouts whose payloads are of the two largest sizes, one odd and one
\* even.
TwinLayouts ==
    {cs \in Layouts : \A k \in 1..Len(cs) : Len(cs[k].data) >= MaxPayload - 1}

InitTwin ==
    /\ \E cs \in TwinLayouts :
         LET full == Container(IdTest, cs)
         IN  \E cut \in 0..Len(full), field \in SizeFields :
               /\ stream = Take(full, cut)
               /\ layout = [chunks |-> cs, cut |-> cut, full |-> Len(full)]
               /\ twin = Run(Take(WithSize(full, field), cut), "new",
                             NewRiffReader(<< >>, 0, FALSE), << >>, << >>, << >>)
    /\ rpc = "new"
    /\ rd = NewRiffReader(<< >>, 0, FALSE)
    /\ lims = << >>
    /\ calls = << >>
    /\ delivered = << >>
    /\ WriteOff /\ FmtOff /\ WavOff /\ ConvOff

\* x becomes the state of the first Reader
FirstBecomes(x) ==
    /\ rpc' = x.pc /\ rd' = x.rd /\ lims' = x.lims
    /\ calls' = x.calls /\ delivered' = x.delivered
    /\ UNCHANGED <<stream, layout, writeVars, fmtVars, wavVars, convVars>>

\* both callers open their container
TwinOpen ==
    /\ rpc = "new" /\ twin.pc = "new"
    /\ FirstBecomes(runOpen(First))
    /\ twin' = runOpen(twin)

\* both callers ask for the next chunk
TwinReadChunk ==
    /\ MayReadChunk /\ twin.pc = "open"
    /\ FirstBecomes(runReadChunk(First))
    /\ twin' = runReadChunk(twin)

\* both callers read from the content stream of the same chunk
TwinReadContent ==
    /\ rpc = "open" /\ twin.pc = "open"
    /\ \E i \in 1..Len(lims), want \in 1..2 :
         /\ ~delivered[i].eof
         /\ i <= Len(twin.lims)
         /\ FirstBecomes(runReadContent(First, i, want))
         /\ twin' = runReadContent(twin, i, want)

NextTwin == TwinOpen \/ TwinReadChunk \/ TwinReadContent
SpecTwin == InitTwin /\ [][NextTwin]_vars

\* the two streams differ at most in the bytes of the total-size field
SizeFieldOnly ==
    /\ Len(stream) = Len(twin.stream)
    /\ \A j \in 1..Len(stream) : j \notin 5..8 => stream[j] = twin.stream[j]

\* C20: two containers that differ only in the total-size field give the
\* same results to the same calls: NewReader succeeds or fails with the same
\* error and the same form tag, and every ReadChunk call and every read of a
\* content stream returns the same identifier, size, bytes, end of stream or
\* error.
C20_SizeFieldIgnored ==
    SizeFieldOnly =>
        /\ rpc = twin.pc
        /\ rpc # "new" =>
              /\ riffNewReader(stream).err = riffNewReader(twin.stream).err
              /\ rd.Form = twin.rd.Form
        /\ calls = twin.calls
        /\ delivered = twin.delivered

\* Two chunks were read to the end of an uncut container whose total-size
\* field holds an odd value far beyond the true size, which is even.
C20_Witness ==
    /\ layout.cut = layout.full /\ Len(layout.chunks) = 2
    /\ SubSeq(twin.stream, 5, 8) = << 255, 255, 255, 127 >>
    /\ Uint32(SubSeq(stream, 5, 8)) = Len(stream) - 8 /\ ~rd.pad /\ twin.rd.pad
    /\ Len(twin.calls) = 3 /\ twin.calls[3].err = "EOF"
    /\ twin.delivered[2].eof /\ Len(twin.delivered[2].bytes) = MaxPayload

\* ======================================================================
\* Conversions the table has no formula for
\* ======================================================================

\* panic("not implemented"): the call does not return
Panic(msg) == [outcome |-> "panic", msg |-> msg]
\* the call returns a value
Returns(v) == [outcome |-> "value", v |-> v]

\* func from16PCMToFloat64(i int16) float64 { panic("not implemented") }
from16PCMToFloat64(i) == Panic("not implemented")
\* func from24PCMToFloat32(i int32) float32 { panic("not implemented") }
from24PCMToFloat32(i) == Panic("not implemented")
\* func from24PCMToFloat64(i int32) float64 { panic("not implemented") }
from24PCMToFloat64(i) == Panic("not implemented")
\* func fromFloat32To24PCM(f float32) int32 { panic("not implemented") }
fromFloat32To24PCM(f) == Panic("not implemented")
\* func fromFloat64To16PCM(f float64) int16 { panic("not implemented") }
fromFloat64To16PCM(f) == Panic("not implemented")
\* func fromFloat64To24PCM(f float64) int32 { panic("not implemented") }
fromFloat64To24PCM(f) == Panic("not implemented")

NoFormula == {"16PCM/Float64", "24PCM/Float32", "24PCM/Float64",
              "Float32/24PCM", "Float64/16PCM", "Float64/24PCM"}
OneWayKinds == NoFormula \cup {"16PCM/24PCM"}

\* Samples of 24 bits and floats at the ends and in the middle of their range.
Some24 == {0 - 8388608, 0 - 1, 0, 1, 255, 65536, 8388607}
SomeFloats == {FZero, fOne, Float(0 - 1, 1, 0), Float(1, 1, 0 - 1), Float(0 - 1, 3, 0 - 2)}

\* The input of a one-way conversion: an integer in i or a float in f.
oneWayInputs(kind) ==
    CASE kind \in {"16PCM/Float64", "16PCM/24PCM"} ->
             {[i |-> x, f |-> FZero] : x \in Int16s}
      [] kind \in {"24PCM/Float32", "24PCM/Float64"} ->
             {[i |-> x, f |-> FZero] : x \in Some24}
      [] OTHER -> {[i |-> 0, f |-> x] : x \in SomeFloats}

convert(kind, a) ==
    CASE kind = "16PCM/Float64" -> from16PCMToFloat64(a.i)
      [] kind = "24PCM/Float32" -> from24PCMToFloat32(a.i)
      [] kind = "24PCM/Float64" -> from24PCMToFloat64(a.i)
      [] kind = "Float32/24PCM" -> fromFloat32To24PCM(a.f)
      [] kind = "Float64/16PCM" -> fromFloat64To16PCM(a.f)
      [] kind = "Float64/24PCM" -> fromFloat64To24PCM(a.f)
      [] kind = "16PCM/24PCM"   -> Returns([i |-> from16PCMTo24PCM(a.i), f |-> FZero])

InitOneWay ==
    /\ \E kind \in OneWayKinds : \E a \in oneWayInputs(kind) :
           conv = [pc |-> "call", kind |-> kind, a |-> a, res |-> Returns(a)]
    /\ ReadOff /\ WriteOff /\ FmtOff /\ WavOff /\ TwinOff

\* the caller converts one sample
ConvCall ==
    /\ conv.pc = "call"
    /\ LET r == convert(conv.kind, conv.a)
       IN  conv' = [conv EXCEPT !.pc = IF r.outcome = "panic" THEN "aborted" ELSE "returned",
                                !.res = r]
    /\ UNCHANGED notConv

NextOneWay == ConvCall
SpecOneWay == InitOneWay /\ [][NextOneWay]_vars

\* C21: a conversion the table has no formula for gives its caller an error
\* value for every input, and never stops the program with a panic.
C21_UnsupportedIsError ==
    (conv.pc # "call" /\ conv.kind \in NoFormula) =>
        conv.pc = "returned" /\ conv.res.outcome = "error"

\* ======================================================================
\* as24PCM: 24-bit samples out of a byte buffer
\* ======================================================================

MaxBytes24 == 6                      \* buffers of 0..MaxBytes24 bytes
SomeBytes  == {0, 1, 128, 255}       \* the bytes the buffers are made of

\* x & y on non-negative integers, bit by bit
RECURSIVE bitAnd(_, _)
bitAnd(x, y) ==
    IF x = 0 \/ y = 0 THEN 0
    ELSE (x % 2) * (y % 2) + 2 * bitAnd(x \div 2, y \div 2)

\* checkSize(bytesPerSample, b)
checkSize(bytesPerSample, b) ==
    IF Len(b) % bytesPerSample # 0 THEN "bad length for buffer" ELSE "nil"

\* lo, mid, hi := int32(b[0]), int32(b[1]), int32(b[2]); i := lo & (mid << 8) & (hi << 16)
next24(b) == bitAnd(bitAnd(b[1], shl(b[2], 8)), shl(b[3], 16))

InitAs24 ==
    /\ \E b \in SeqsUpTo(SomeBytes, MaxBytes24) :
           conv = [pc |-> "check", b |-> b, rest |-> b, got |-> << >>, err |-> "nil"]
    /\ ReadOff /\ WriteOff /\ FmtOff /\ WavOff /\ TwinOff

\* it, err := as24PCM(b)
As24Check ==
    /\ conv.pc = "check"
    /\ conv' = [conv EXCEPT !.err = checkSize(3, conv.b),
                            !.pc = IF checkSize(3, conv.b) = "nil" THEN "range" ELSE "rejected"]
    /\ UNCHANGED notConv

\* one turn of the iterator's loop: a value is yielded and b = b[3:]
As24Yield ==
    /\ conv.pc = "range" /\ Len(conv.rest) > 0
    /\ conv' = [conv EXCEPT !.got = Append(conv.got, next24(conv.rest)),
                            !.rest = Drop(conv.rest, 3)]
    /\ UNCHANGED notConv

\* len(b) = 0: the loop ends
As24End ==
    /\ conv.pc = "range" /\ Len(conv.rest) = 0
    /\ conv' = [conv EXCEPT !.pc = "ended"]
    /\ UNCHANGED notConv

NextAs24 == As24Check \/ As24Yield \/ As24End
SpecAs24 == InitAs24 /\ [][NextAs24]_vars

\* the little-endian value of the k-th group of three bytes
Group24(b, k) == b[3 * k - 2] + 256 * b[3 * k - 1] + 65536 * b[3 * k]

\* C22: as24PCM rejects a buffer whose length is not a multiple of 3, and
\* otherwise yields one value per group of three bytes, in order, the
\* little-endian combination of the three bytes.
C22_Reconstruct24 ==
    /\ conv.pc = "rejected" => Len(conv.b) % 3 # 0
    /\ conv.pc \in {"range", "ended"} => Len(conv.b) % 3 = 0
    /\ conv.pc = "ended" =>
          /\ Len(conv.got) = Len(conv.b) \div 3
          /\ \A k \in 1..Len(conv.got) : conv.got[k] = Group24(conv.b, k)

---------------------------------------------------------------------------
(* The end of the container, asked for again (checked under SpecRead).     *)

\* C23: once a ReadChunk call has returned io.EOF, every later ReadChunk call
\* on the same Reader returns io.EOF as well, neither a chunk nor another
\* error, whether the last chunk's size was odd or even.
C23_EndIsSticky ==
    \A k \in 1..Len(calls) : \A j \in k..Len(calls) :
        calls[k].err = "EOF" => calls[j].err = "EOF"

\* ======================================================================
\* SpecWriteRead: a wav.Writer writes a file, is closed, and a wav.Reader
\* is opened on the file.
\* ======================================================================

\* The FileFormats handed to NewWriter: every encoding, bit depths of whole
\* and of broken bytes, one or two channels.
WrFormats ==
    [Format : {PCM, IEEEFloat, ALaw, MuLaw, Extensible}, BitDepth : {1, 8, 12, 16, 32},
     Channels : 1..2, SampleRate : {8000}]

InitWriteRead ==
    /\ SamplesIdle
    /\ \E format \in WrFormats :
         LET n == wavNewWriter([bytes |-> << >>, pos |-> 0], format)
         IN  /\ n.err = "nil"
             /\ ws = n.f.bytes /\ wpos = n.f.pos
             /\ wavw = n.W
             /\ sent = [c \in 1..n.W.fmt.channels |-> << >>]
             /\ layout = [chunks |-> << >>, cut |-> 0, full |-> 0, ff |-> format]
    /\ wavr = [pc |-> "off"]
    /\ stream = << >>

\* r, err := NewReader(f) on the file the closed Writer left
DoReadBack ==
    /\ wavw.pc = "closed" /\ wavr.pc = "off"
    /\ slast.op = "Close" /\ slast.err = "nil"
    /\ wavr' = wavNewReader(ws)
    /\ UNCHANGED <<ws, wpos, wavw, sent, slast, sbufs, cws, wlog, wr, wlast,
                   readVars, fmtVars, convVars, twinVars>>

NextWriteRead == DoWrite8PCM \/ DoWrite16PCM \/ DoWavClose \/ DoReadBack
SpecWriteRead == InitWriteRead /\ [][NextWriteRead]_vars

\* the Reader was opened on a file that NewWriter and Close alone produced
ReadBackOfEmpty == wavr.pc # "off" /\ slast.k = 1

\* C24: the file that NewWriter followed by Close produces, for a FileFormat
\* of any of the five encodings with at least one channel, is accepted by
\* NewReader, and the Reader reports the FileFormat's encoding, channel count,
\* sample rate and bit depth.
C24_WriterOutputReadable ==
    (ReadBackOfEmpty /\ layout.ff.Channels >= 1) =>
        /\ wavr.pc = "ready"
        /\ Format(wavr.fmt) = layout.ff.Format
        /\ wavr.fmt.channels = layout.ff.Channels
        /\ wavr.fmt.sampleRate = layout.ff.SampleRate
        /\ wavr.fmt.bitsPerSample = layout.ff.BitDepth

\* a PCM FileFormat of 1..16 bits was handed to NewWriter
Pcm1To16 == layout.ff.Format = PCM /\ layout.ff.BitDepth \in 1..16

\* C25: for a PCM FileFormat of 1..16 bits, every successful Write8PCM or
\* Write16PCM call appends the descriptor's block alignment in bytes for each
\* frame, so that the Reader opened on the closed file counts as many frames
\* (data bytes divided by block alignment) as were written.
C25_FrameSizeIsBlockAlign ==
    Pcm1To16 =>
        /\ (slast.op \in {"Write8PCM", "Write16PCM"} /\ slast.err = "nil") =>
               slast.n = slast.frames * wavw.fmt.blockAlign
        /\ wavr.pc = "ready" => Samples(wavr) = FramesSent

\* ======================================================================
\* SpecDataReads: decode calls and raw Read calls on a wav.Reader, with a
\* record of every call and of every byte handed out as sample data.
\* ======================================================================

\* (r *Reader) Read(b) with len(b) = want: r.data.Read(b)
wavRead(data, R, want) ==
    LET a == LimitedRead(data, R.r.off, R.ls[R.data], want)
    IN  [n |-> a.n, err |-> a.err, bytes |-> a.bytes,
         R |-> [R EXCEPT !.r.off = a.off, !.ls[R.data] = a.lim]]

InitDataReads == SamplesIdle /\ InitSamplesReader

MayReadData == wavr.pc = "ready" /\ Len(calls) < MaxOps /\ slast.err # "panic"

notDataReads == <<stream, layout, rpc, rd, lims, wavw, sent, writeVars, fmtVars,
                  convVars, twinVars>>

\* the bytes of the file between two positions of the Reader
Consumed(from, to) == SubSeq(stream, from + 1, to)

\* n, err := r.ReadXX(bufs) with one buffer for each channel
DataDecode ==
    /\ MayReadData
    /\ \E op \in {"Read8PCM", "Read16PCM", "Read32Float", "Read64Float"},
          frames \in {0, 1, MaxFrames} :
         LET nbuf == wavr.fmt.channels
             bufs == [c \in 1..nbuf |-> [j \in 1..frames |-> Old(c, j)]]
             r    == ReadSamples(op, bufs, stream, wavr)
         IN  /\ wavr' = r.R
             /\ sbufs' = r.bufs
             /\ slast' = [op |-> op, k |-> slast.k + 1, declared |-> wavr.fmt.channels,
                          nbuf |-> nbuf, frames |-> frames, n |-> r.n, err |-> r.err,
                          ios |-> r.ios, stores |-> r.stores,
                          moved |-> r.R # wavr \/ r.bufs # bufs,
                          at |-> wavr.r.off, left |-> wavr.ls[wavr.data]]
             /\ calls' = Append(calls, [op |-> op, n |-> r.n, err |-> r.err])
             /\ delivered' = delivered \o Consumed(wavr.r.off, r.R.r.off)
    /\ UNCHANGED notDataReads

\* n, err := r.Read(b)
DataRawRead ==
    /\ MayReadData
    /\ \E want \in {1, 3, MaxData} :
         LET r == wavRead(stream, wavr, want)
         IN  /\ wavr' = r.R
             /\ slast' = [op |-> "Read", k |-> slast.k + 1, declared |-> wavr.fmt.channels,
                          nbuf |-> 0, frames |-> 0, n |-> r.n, err |-> r.err,
                          ios |-> 1, stores |-> 0, moved |-> r.R # wavr,
                          at |-> wavr.r.off, left |-> wavr.ls[wavr.data]]
             /\ calls' = Append(calls, [op |-> "Read", n |-> r.n, err |-> r.err])
             /\ delivered' = delivered \o r.bytes
    /\ UNCHANGED <<sbufs, notDataReads>>

\* n := r.Samples(): dataBytes / blockAlign, a run-time panic when blockAlign is 0.
\* Its result does not depend on what was read, so the caller asks once, before
\* the first read.
DataSamples ==
    /\ wavr.pc = "ready" /\ slast.op = "none" /\ calls = << >>
    /\ slast' = [NoSampleOp EXCEPT
                    !.op = "Samples", !.k = slast.k, !.declared = wavr.fmt.channels,
                    !.err = IF wavr.fmt.blockAlign = 0 THEN "panic" ELSE "nil",
                    !.n = IF wavr.fmt.blockAlign = 0 THEN 0 ELSE Samples(wavr),
                    !.at = wavr.r.off, !.left = wavr.ls[wavr.data]]
    /\ UNCHANGED <<wavr, sbufs, calls, delivered, notDataReads>>

NextDataReads == DataDecode \/ DataRawRead \/ DataSamples
SpecDataReads == InitDataReads /\ [][NextDataReads]_vars

\* where the data chunk's payload starts: after the container header, the
\* descriptor chunk and the data chunk's header
DataStart == 12 + (8 + Len(layout.chunks[1].data)) + 8

RECURSIVE FramesDecoded(_)
FramesDecoded(cs) ==
    IF cs = << >> THEN 0
    ELSE FramesDecoded(Tail(cs))
         + IF Head(cs).op # "Read" /\ Head(cs).err = "nil" THEN Head(cs).n ELSE 0

\* C26: whatever decode calls and raw Read calls were made, the bytes handed
\* out as sample data are the first bytes of the data chunk's payload, no more
\* of them than its declared size (so none of its pad byte or of a chunk
\* after it), and the frames that successful decode calls returned add up to
\* at most Samples().
C26_NeverPastData ==
    wavr.pc = "ready" =>
        /\ Len(delivered) <= Len(layout.chunks[2].data)
        /\ wavr.dataBytes = Len(layout.chunks[2].data)
        /\ delivered = SubSeq(stream, DataStart + 1, DataStart + Len(delivered))
        /\ wavr.r.off = DataStart + Len(delivered)
        /\ IF wavr.fmt.blockAlign = 0 THEN FramesDecoded(calls) = 0
           ELSE FramesDecoded(calls) <= Samples(wavr)

\* A data chunk of 5 bytes with its pad byte and another chunk after it: a
\* raw Read took 3 bytes, and the decode call after it asked for more frames
\* than the 2 bytes left hold and was refused.
C26_Witness ==
    /\ wavr.pc = "ready" /\ Len(layout.chunks) = 3 /\ wavr.dataBytes = 5
    /\ Len(calls) = 2
    /\ calls[1] = [op |-> "Read", n |-> 3, err |-> "nil"]
    /\ calls[2].op = "Read16PCM" /\ calls[2].err = "ErrUnexpectedEOF"
    /\ slast.frames = MaxFrames /\ wavr.fmt.blockAlign = 2
    /\ delivered = layout.chunks[2].data

\* the last call was a decode call whose conversion the Reader supports
SupportedDecode ==
    /\ slast.op \in {"Read8PCM", "Read16PCM", "Read32Float", "Read64Float"}
    /\ selRead(slast.op, wavr.fmt).err = "nil"
    /\ selRead(slast.op, wavr.fmt).next # "nil"

\* C27: on every descriptor NewReader accepted, whatever its channel count,
\* block alignment and bit depth, Samples() and every decode call with a
\* supported conversion and one buffer per channel return a value or an
\* error; none ends in a run-time panic.
C27_NoFaultOnAccepted ==
    (wavr.pc = "ready" /\ (slast.op = "Samples" \/ (SupportedDecode /\ slast.nbuf = slast.declared)))
        => slast.err # "panic"

=============================================================================
